---- MODULE Spec2Model ----
(***************************************************************************)
(* Model of the IMEI checker bot (app/bot/bot_manager.py and its services).*)
(* Money is counted in cents.  Every awaited Telegram call (message.answer,*)
(* edit_text, delete) is a suspension point that either completes or       *)
(* raises; the handlers are cut into steps at the suspension points after  *)
(* which they still read or write shared state.                            *)
(***************************************************************************)
EXTENDS Integers, Sequences, FiniteSets, TLC

(***************************************************************************)
(* Bounds of the model.                                                    *)
(***************************************************************************)
MaxTxn == 1          \* invocations of handle_imei_input running at a time
MaxDialogs == 1      \* users with a dialog or a handler under way at a time
MaxBalance == 80     \* cap on a balance raised by /addbalance (cents)
MaxServices == 1     \* service ids 1..MaxServices can be registered
MaxRaceTxn == 2      \* handlers of handle_imei_input that overlap in RaceSpec
MaxLedgerOps == 3    \* calls made on the database in LedgerSpec
MaxRecords == 52     \* queries one user repeats in HistorySpec
MaxCatalogIds == 2   \* service ids 1..MaxCatalogIds are used in CatalogSpec
MaxCatalogLen == 3   \* cap on the length of SERVICES_DATA in CatalogSpec

(***************************************************************************)
(* Program constants.                                                      *)
(***************************************************************************)
OWNER_ID == "owner"  \* config.owner_id
HISTORY_CAP == 50    \* database.py: keep only last 50 queries
MIN_LEN == 8         \* imei_validator.py: len(clean_imei) < 8
MAX_LEN == 17        \* imei_validator.py: len(clean_imei) > 17
LUHN_LEN == 15       \* imei_validator.py: len(clean_imei) == 15
MAX_RETRIES == 3     \* config.max_retries default

UserIds == {OWNER_ID, "user"}
Categories == {"Apple"}
ServiceIds == 1..MaxServices

(***************************************************************************)
(* app/config.py: the attributes a Settings object carries.                *)
(***************************************************************************)
Settings ==
    {"bot_token", "imei_checker_api_key", "imei_api_url", "host", "port",
     "debug", "webhook_url", "webhook_path", "webhook_secret", "owner_id",
     "users_db_path", "services_db_path", "request_timeout", "max_retries",
     "autopinger_enabled", "autopinger_interval", "autopinger_url",
     "admin_key"}

\* IMEIBot._is_owner
is_owner(user_id) == user_id = OWNER_ID

(***************************************************************************)
(* Text.  A message text is a tuple of one-character strings.              *)
(***************************************************************************)
Digits == {"0", "1", "2", "3", "4", "5", "6", "7", "8", "9"}

DigitVal(c) ==
    CASE c = "0" -> 0 [] c = "1" -> 1 [] c = "2" -> 2 [] c = "3" -> 3
      [] c = "4" -> 4 [] c = "5" -> 5 [] c = "6" -> 6 [] c = "7" -> 7
      [] c = "8" -> 8 [] c = "9" -> 9

IsDigit(c) == c \in Digits

\* s[-n:]
LastN(s, n) == IF Len(s) <= n THEN s ELSE SubSeq(s, Len(s) - n + 1, Len(s))

(***************************************************************************)
(* app/services/imei_validator.py                                          *)
(***************************************************************************)
\* imei[::-1]
Reverse(s) == [i \in 1..Len(s) |-> s[Len(s) + 1 - i]]

RECURSIVE LuhnTotal(_, _)
\* the loop of _luhn_check over reverse_digits; k is enumerate's index + 1
LuhnTotal(reverse_digits, k) ==
    IF k > Len(reverse_digits) THEN 0
    ELSE LET n == DigitVal(reverse_digits[k])
             i == k - 1
             d == IF i % 2 = 1
                  THEN (IF n * 2 > 9 THEN ((n * 2) \div 10) + ((n * 2) % 10)
                        ELSE n * 2)
                  ELSE n
         IN  d + LuhnTotal(reverse_digits, k + 1)

RECURSIVE PlainTotal(_, _)
\* the digits added up as they are
PlainTotal(digits, k) ==
    IF k > Len(digits) THEN 0 ELSE DigitVal(digits[k]) + PlainTotal(digits, k + 1)

\* _luhn_check with no digit doubled
luhn_check_without_doubling(imei) == PlainTotal(imei, 1) % 10 = 0

luhn_check(imei) == LuhnTotal(Reverse(imei), 1) % 10 = 0

\* re.sub(r'[^\d]', '', imei)
CleanDigits(imei) == SelectSeq(imei, IsDigit)

\* validate_imei with the upper limit of the length one digit too high
validate_imei_accepts_18(imei) ==
    LET clean_imei == CleanDigits(imei) IN
    IF imei = <<>>
    THEN [is_valid |-> FALSE, error |-> "EMPTY", clean |-> <<>>]
    ELSE IF clean_imei = <<>>
    THEN [is_valid |-> FALSE, error |-> "NOT_NUMERIC", clean |-> <<>>]
    ELSE IF Len(clean_imei) < MIN_LEN \/ Len(clean_imei) > MAX_LEN + 1
    THEN [is_valid |-> FALSE, error |-> "LENGTH", clean |-> <<>>]
    ELSE IF Len(clean_imei) = LUHN_LEN /\ ~luhn_check(clean_imei)
    THEN [is_valid |-> FALSE, error |-> "CHECKSUM", clean |-> <<>>]
    ELSE [is_valid |-> TRUE, error |-> "NONE", clean |-> clean_imei]

\* validate_imei with the checksum applied to every length
validate_imei_checks_every_length(imei) ==
    LET clean_imei == CleanDigits(imei) IN
    IF imei = <<>>
    THEN [is_valid |-> FALSE, error |-> "EMPTY", clean |-> <<>>]
    ELSE IF clean_imei = <<>>
    THEN [is_valid |-> FALSE, error |-> "NOT_NUMERIC", clean |-> <<>>]
    ELSE IF Len(clean_imei) < MIN_LEN \/ Len(clean_imei) > MAX_LEN
    THEN [is_valid |-> FALSE, error |-> "LENGTH", clean |-> <<>>]
    ELSE IF ~luhn_check(clean_imei)
    THEN [is_valid |-> FALSE, error |-> "CHECKSUM", clean |-> <<>>]
    ELSE [is_valid |-> TRUE, error |-> "NONE", clean |-> clean_imei]

validate_imei(imei) ==
    LET clean_imei == CleanDigits(imei) IN
    IF imei = <<>>
    THEN [is_valid |-> FALSE, error |-> "EMPTY", clean |-> <<>>]
    ELSE IF clean_imei = <<>>
    THEN [is_valid |-> FALSE, error |-> "NOT_NUMERIC", clean |-> <<>>]
    ELSE IF Len(clean_imei) < MIN_LEN \/ Len(clean_imei) > MAX_LEN
    THEN [is_valid |-> FALSE, error |-> "LENGTH", clean |-> <<>>]
    ELSE IF Len(clean_imei) = LUHN_LEN /\ ~luhn_check(clean_imei)
    THEN [is_valid |-> FALSE, error |-> "CHECKSUM", clean |-> <<>>]
    ELSE [is_valid |-> TRUE, error |-> "NONE", clean |-> clean_imei]

(***************************************************************************)
(* app/services/imei_checker.py.  resp[k] is what the provider does to the *)
(* k-th GET: an HTTP status, a timeout or a connection error.              *)
(***************************************************************************)
\* "200bad" is a 200 whose body is not JSON; "204" stands for the 2xx
\* statuses other than 200, "500" for the statuses raise_for_status rejects
Responses == {"200", "200bad", "204", "429", "500", "timeout", "connerr"}

NoError == <<"None", 0>>

Pow2(n) == IF n = 0 THEN 1 ELSE IF n = 1 THEN 2 ELSE IF n = 2 THEN 4 ELSE 8

\* asyncio.sleep(2 ** attempt), entered after the GET of `attempt`
Backoff(attempt) == [after |-> attempt, secs |-> Pow2(attempt)]

RECURSIVE check_loop(_, _, _, _, _)
\* check_loop with the back-off sleep taken after a 200 as well
check_loop_sleeps_after_200(resp, attempt, last_error, gets, sleeps) ==
    IF attempt >= MAX_RETRIES
    THEN [kind |-> "checker.APIError", gets |-> gets, sleeps |-> sleeps,
          last_error |-> last_error]
    ELSE LET r == resp[attempt + 1]
             more == attempt < MAX_RETRIES - 1
         IN
         IF r = "200"
         THEN [kind |-> "ok", gets |-> gets + 1,
               sleeps |-> Append(sleeps, Backoff(attempt)),
               last_error |-> last_error]
         \* response.json() raises json.JSONDecodeError, caught by none
         ELSE IF r = "200bad"
         THEN [kind |-> "JSONDecodeError", gets |-> gets + 1, sleeps |-> sleeps,
               last_error |-> last_error]
         ELSE IF r = "429"
         THEN check_loop(resp, attempt + 1, last_error, gets + 1,
                         Append(sleeps, Backoff(attempt)))
         ELSE IF r = "timeout"
         THEN check_loop(resp, attempt + 1, <<"Timeout", attempt + 1>>, gets + 1,
                         IF more THEN Append(sleeps, Backoff(attempt)) ELSE sleeps)
         ELSE IF r = "connerr"
         THEN check_loop(resp, attempt + 1, <<"Conexion", attempt + 1>>, gets + 1,
                         IF more THEN Append(sleeps, Backoff(attempt)) ELSE sleeps)
         ELSE IF r = "204"
         \* raise_for_status() returns on a 2xx status: the loop goes on
         THEN check_loop(resp, attempt + 1, last_error, gets + 1, sleeps)
         \* raise_for_status() raises httpx.HTTPStatusError, caught by none
         ELSE [kind |-> "HTTPStatusError", gets |-> gets + 1, sleeps |-> sleeps,
               last_error |-> last_error]

\* the for loop of check_imei from `attempt` on
check_loop(resp, attempt, last_error, gets, sleeps) ==
    IF attempt >= MAX_RETRIES
    THEN [kind |-> "checker.APIError", gets |-> gets, sleeps |-> sleeps,
          last_error |-> last_error]
    ELSE LET r == resp[attempt + 1]
             more == attempt < MAX_RETRIES - 1
         IN
         IF r = "200"
         THEN [kind |-> "ok", gets |-> gets + 1, sleeps |-> sleeps,
               last_error |-> last_error]
         \* response.json() raises json.JSONDecodeError, caught by none
         ELSE IF r = "200bad"
         THEN [kind |-> "JSONDecodeError", gets |-> gets + 1, sleeps |-> sleeps,
               last_error |-> last_error]
         ELSE IF r = "429"
         THEN check_loop(resp, attempt + 1, last_error, gets + 1,
                         Append(sleeps, Backoff(attempt)))
         ELSE IF r = "timeout"
         THEN check_loop(resp, attempt + 1, <<"Timeout", attempt + 1>>, gets + 1,
                         IF more THEN Append(sleeps, Backoff(attempt)) ELSE sleeps)
         ELSE IF r = "connerr"
         THEN check_loop(resp, attempt + 1, <<"Conexion", attempt + 1>>, gets + 1,
                         IF more THEN Append(sleeps, Backoff(attempt)) ELSE sleeps)
         ELSE IF r = "204"
         \* raise_for_status() returns on a 2xx status: the loop goes on
         THEN check_loop(resp, attempt + 1, last_error, gets + 1, sleeps)
         \* raise_for_status() raises httpx.HTTPStatusError, caught by none
         ELSE [kind |-> "HTTPStatusError", gets |-> gets + 1, sleeps |-> sleeps,
               last_error |-> last_error]

\* check_imei: building params reads config.imei_api_key before any request
check_imei(config, resp) ==
    IF "imei_api_key" \notin config
    THEN [kind |-> "AttributeError", gets |-> 0, sleeps |-> <<>>,
          last_error |-> NoError]
    ELSE check_loop(resp, 0, NoError, 0, <<>>)

\* no call of check_imei made
NoResult == [kind |-> "none", gets |-> 0, sleeps |-> <<>>, last_error |-> NoError]

NoCall == [config |-> {}, resp |-> <<>>, done |-> FALSE, result |-> NoResult]

\* validate_imei not called
NoValidation ==
    [imei |-> <<>>, done |-> FALSE,
     result |-> [is_valid |-> FALSE, error |-> "none", clean |-> <<>>]]

\* no payload given to format_imei_response and no message returned
NoPayload == [type |-> "none", result |-> [kind |-> "absent", text |-> <<>>]]

NoMessage == [error |-> FALSE, has_details |-> FALSE, details |-> <<>>,
              truncated |-> FALSE]

\* format_imei_response not called
NoFormatting == [payload |-> NoPayload, done |-> FALSE, message |-> NoMessage]

\* AutoPinger.__init__: self.task = None and no task created
NoPinger ==
    [enabled |-> FALSE, url |-> "", task |-> 0, tasks |-> <<>>,
     stop |-> [pc |-> "idle", awaited |-> 0]]

\* no admin request answered
NoReply == [endpoint |-> "none", status |-> 0, user_id |-> "nobody", before |-> 0]

\* DatabaseManager.cargar_solicitudes without a requests file
NoRequests ==
    [solicitudes |-> <<>>, contador_solicitudes |-> 0,
     estadisticas |-> [total_solicitudes |-> 0, solicitudes_completadas |-> 0,
                       solicitudes_pendientes |-> 0]]

\* the clock at its origin and no call of update_user_query made
NoLog == [clock |-> 0, calls |-> [u \in UserIds |-> <<>>]]

(***************************************************************************)
(* app/services/database.py.  users maps the ids of the known accounts to  *)
(* their UserData; the file holds what save_users wrote last.              *)
(***************************************************************************)
\* UserData(...): the dataclass, with its defaults for the last three fields
UserData(username, first_name, last_name, now) ==
    [username |-> username, first_name |-> first_name, last_name |-> last_name,
     join_date |-> now, last_activity |-> now,
     total_queries |-> 0, balance |-> 0, query_history |-> <<>>]

\* message.from_user: the profile Telegram reports for the sender u
from_user(u) == [username |-> u, first_name |-> u, last_name |-> "None"]

\* self.users[user_id] = value
DictSet(d, k, v) == [x \in DOMAIN d \cup {k} |-> IF x = k THEN v ELSE d[x]]

\* del d[k]
DictDel(d, k) == [x \in DOMAIN d \ {k} |-> d[x]]

\* get_or_create_user with the account made anew on every call
get_or_create_user_recreates(us, user_id, profile, now) ==
    DictSet(us, user_id, UserData(profile.username, profile.first_name,
                                  profile.last_name, now))

\* get_or_create_user: the accounts afterwards
get_or_create_user(us, user_id, profile, now) ==
    IF user_id \notin DOMAIN us
    THEN DictSet(us, user_id, UserData(profile.username, profile.first_name,
                                       profile.last_name, now))
    ELSE DictSet(us, user_id,
                 [us[user_id] EXCEPT !.username = profile.username,
                                     !.first_name = profile.first_name,
                                     !.last_name = profile.last_name,
                                     !.last_activity = now])

\* get_or_create_user calls save_users only when it creates the account
get_or_create_saves(us, user_id) == user_id \notin DOMAIN us

\* update_user_query with the oldest 50 records kept on overflow
update_user_query_keeps_oldest(us, user_id, service_title, price, imei, success) ==
    IF user_id \in DOMAIN us
    THEN LET user == us[user_id]
             query_record == [service |-> service_title, price |-> price,
                              imei |-> LastN(imei, 4), success |-> success]
             appended == Append(user.query_history, query_record)
         IN  DictSet(us, user_id,
                 [user EXCEPT
                    !.balance = IF success THEN user.balance - price
                                ELSE user.balance,
                    !.total_queries = user.total_queries + 1,
                    !.query_history = IF Len(appended) > HISTORY_CAP
                                      THEN SubSeq(appended, 1, HISTORY_CAP)
                                      ELSE appended])
    ELSE us

\* update_user_query with total_queries raised for successful queries only
update_user_query_counts_successes(us, user_id, service_title, price, imei, success) ==
    IF user_id \in DOMAIN us
    THEN LET user == us[user_id]
             query_record == [service |-> service_title, price |-> price,
                              imei |-> LastN(imei, 4), success |-> success]
             appended == Append(user.query_history, query_record)
         IN  DictSet(us, user_id,
                 [user EXCEPT
                    !.balance = IF success THEN user.balance - price
                                ELSE user.balance,
                    !.total_queries = IF success THEN user.total_queries + 1
                                      ELSE user.total_queries,
                    !.query_history = IF Len(appended) > HISTORY_CAP
                                      THEN LastN(appended, HISTORY_CAP)
                                      ELSE appended])
    ELSE us

\* update_user_query with the whole identifier stored in the record
update_user_query_keeps_identifier(us, user_id, service_title, price, imei, success) ==
    IF user_id \in DOMAIN us
    THEN LET user == us[user_id]
             query_record == [service |-> service_title, price |-> price,
                              imei |-> imei, success |-> success]
             appended == Append(user.query_history, query_record)
         IN  DictSet(us, user_id,
                 [user EXCEPT
                    !.balance = IF success THEN user.balance - price
                                ELSE user.balance,
                    !.total_queries = user.total_queries + 1,
                    !.query_history = IF Len(appended) > HISTORY_CAP
                                      THEN LastN(appended, HISTORY_CAP)
                                      ELSE appended])
    ELSE us

\* update_user_query: the accounts afterwards
update_user_query(us, user_id, service_title, price, imei, success) ==
    IF user_id \in DOMAIN us
    THEN LET user == us[user_id]
             query_record == [service |-> service_title, price |-> price,
                              imei |-> LastN(imei, 4), success |-> success]
             appended == Append(user.query_history, query_record)
         IN  DictSet(us, user_id,
                 [user EXCEPT
                    !.balance = IF success THEN user.balance - price
                                ELSE user.balance,
                    !.total_queries = user.total_queries + 1,
                    !.query_history = IF Len(appended) > HISTORY_CAP
                                      THEN LastN(appended, HISTORY_CAP)
                                      ELSE appended])
    ELSE us

(***************************************************************************)
(* The service catalog of app/bot/bot_manager.py.                          *)
(***************************************************************************)
NoService == [id |-> 0, title |-> "None", price |-> "None", category |-> "None"]

PriceTexts == {"0.50", "abc"}

\* float(text): the amount in cents, or ValueError
ParseFloat(text) ==
    CASE text = "0.50" -> [ok |-> TRUE, cents |-> 50]
      [] text = "3.50" -> [ok |-> TRUE, cents |-> 350]
      [] OTHER -> [ok |-> FALSE, cents |-> 0]

\* app/data/services_data.py
InitialServices ==
    << [id |-> 1, title |-> "Info", price |-> "0.50", category |-> "Apple"] >>

\* {s["id"]: s for s in services}
ById(services) ==
    [i \in {services[k].id : k \in 1..Len(services)} |->
        services[CHOOSE k \in 1..Len(services) :
                    /\ services[k].id = i
                    /\ \A j \in (k + 1)..Len(services) : services[j].id # i]]

\* [s for s in services if s["category"] == category]
OfCategory(services, category) ==
    SelectSeq(services, LAMBDA s : s.category = category)

\* the loop of __init__ that files every service under its category
ByCategory(services) ==
    [c \in {services[k].category : k \in 1..Len(services)} |->
        OfCategory(services, c)]

\* [s for s in services if s["id"] != service_id]
WithoutId(services, service_id) ==
    SelectSeq(services, LAMBDA s : s.id # service_id)

\* json.dump(SERVICES_DATA, f): the document is a list of objects, an object
\* the list of its key-value pairs
json_dump(services) ==
    [k \in 1..Len(services) |->
        << <<"id", services[k].id>>, <<"title", services[k].title>>,
           <<"price", services[k].price>>, <<"category", services[k].category>> >>]

\* the value of a key of a JSON object
JsonGet(object, key) ==
    object[CHOOSE j \in 1..Len(object) : object[j][1] = key][2]

\* json.load(f): every object becomes a dict again
json_load(document) ==
    [k \in 1..Len(document) |->
        [id |-> JsonGet(document[k], "id"),
         title |-> JsonGet(document[k], "title"),
         price |-> JsonGet(document[k], "price"),
         category |-> JsonGet(document[k], "category")]]

\* dict.get(key) with None as NoService
DictGet(d, k) == IF k \in DOMAIN d THEN d[k] ELSE NoService

(***************************************************************************)
(* The dialog state of one user in the dispatcher's MemoryStorage.         *)
(***************************************************************************)
Idle == "None"
FsmStates == {Idle, "waiting_for_service_category", "waiting_for_service",
              "waiting_for_imei"}

\* state.clear()
Cleared ==
    [state |-> Idle, selected_category |-> "None", selected_service |-> NoService]

(***************************************************************************)
(* handle_imei_input: which except clause takes an outcome of check_imei.  *)
(* `except APIError` names bot_manager.APIError; check_imei raises the     *)
(* APIError of imei_checker.py, a different class.                         *)
(***************************************************************************)
ExceptClause(kind) ==
    IF kind = "ok" THEN "ok"
    ELSE IF kind = "bot_manager.APIError" THEN "api"
    ELSE "exc"

\* what the provider does to the GETs of one check_imei call
ProviderScripts == { <<"200", "200", "200">>, <<"429", "429", "429">> }

NoScript == <<>>

\* the message texts users send while the bot waits for an identifier
ImeiInputs ==
    { <<"4", "9", "0", "1", "5", "4", "2", "0", "3", "2", "3", "7", "5", "1", "8">>,
      <<"1", "2", "3", "4", "5", "6", "7", "8", "9", "0", "1", "2", "3", "4", "5">> }

\* the text of the menu button _create_main_menu labels "Cancelar"
CancelText == <<"X", " ", "C", "a", "n", "c", "e", "l", "a", "r">>

AddAmounts == {40}

VARIABLES
    SERVICES_DATA,         \* the module-level list of services
    services_by_id,        \* IMEIBot.services_by_id
    services_by_category,  \* IMEIBot.services_by_category
    services_file,         \* the services file: whether it exists, and its list
    users,                 \* UserDatabase.users
    users_file,            \* what save_users wrote last
    fsm,                   \* per user: FSM state and data
    svc_callback,          \* per user: a svc_ callback suspended in edit_text
    txn,                   \* the invocations of handle_imei_input
    call,                  \* one call of IMEIChecker.check_imei taken alone
    ledger_log,            \* the clock datetime.now() reads, and the calls of
                           \* update_user_query made on the database taken alone
    validation,            \* one call of IMEIValidator.validate_imei taken alone
    formatting,            \* one call of ResponseFormatter.format_imei_response
    autopinger,            \* AutoPinger.task and the ping loop tasks created
    http,                  \* the admin request answered last by main.py
    solicitudes_db         \* src/bot.py: TelegramBot.solicitudes_db

vars == <<SERVICES_DATA, services_by_id, services_by_category, services_file,
          users, users_file, fsm, svc_callback, txn, call, ledger_log,
          validation, formatting, autopinger, http, solicitudes_db>>

\* the parts of the repository that are modelled on their own
aside == <<validation, formatting, autopinger, http, solicitudes_db>>

\* none of them has been used
AsideIdle ==
    /\ validation = NoValidation
    /\ formatting = NoFormatting
    /\ autopinger = NoPinger
    /\ http = NoReply
    /\ solicitudes_db = NoRequests

catalog == <<SERVICES_DATA, services_by_id, services_by_category, services_file>>
ledger == <<users, users_file>>

Txns == DOMAIN txn

FreeTxn ==
    [pc |-> "free", at |-> "none", user |-> "nobody", error |-> "none",
     imei |-> <<>>, service |-> NoService, price |-> 0, prov |-> NoScript,
     result |-> "none", gets |-> 0, clause |-> "none", calls |-> <<>>]

\* the handler of the slot is not running: never started, returned or raised
Ended(t) == txn[t].pc \in {"free", "done", "raised"}

\* the slot that records the next invocation: the first whose handler ended
NextTxn == CHOOSE t \in Txns : Ended(t) /\ \A s \in 1..(t - 1) : ~Ended(s)

\* a dialog or a handler of user v is under way
Busy(v) ==
    \/ fsm[v] # Cleared
    \/ svc_callback[v]
    \/ \E t \in Txns : txn[t].user = v /\ ~Ended(t)

\* u may act without exceeding MaxDialogs
MayChat(u) == Cardinality({v \in UserIds \ {u} : Busy(v)}) < MaxDialogs

Init ==
    /\ SERVICES_DATA = InitialServices
    /\ services_by_id = ById(InitialServices)
    /\ services_by_category = ByCategory(InitialServices)
    /\ services_file = [exists |-> FALSE, data |-> <<>>]
    /\ users = <<>>
    /\ users_file = <<>>
    /\ fsm = [u \in UserIds |-> Cleared]
    /\ svc_callback = [u \in UserIds |-> FALSE]
    /\ txn = [t \in 1..MaxTxn |-> FreeTxn]
    /\ call = NoCall
    /\ ledger_log = NoLog
    /\ AsideIdle

(***************************************************************************)
(* The dialog: commands, the menu text and the inline buttons.             *)
(***************************************************************************)
\* cmd_start: state.clear(), get_or_create_user, then the welcome message
cmd_start(u) ==
    /\ fsm' = [fsm EXCEPT ![u] = Cleared]
    /\ users' = get_or_create_user(users, u, from_user(u), ledger_log.clock)
    /\ users_file' = IF get_or_create_saves(users, u) THEN users' ELSE users_file
    /\ UNCHANGED <<call, ledger_log, aside, catalog, svc_callback, txn>>

\* cmd_cancel: state.clear(), then the message
cmd_cancel(u) ==
    /\ fsm' = [fsm EXCEPT ![u] = Cleared]
    /\ UNCHANGED <<call, ledger_log, aside, catalog, ledger, svc_callback, txn>>

\* handle_category_selection with the text "Consultar IMEI": the keyboard is
\* sent, then set_state.  In waiting_for_imei the text goes to handle_imei_input.
menu_consultar(u) ==
    /\ MayChat(u)
    /\ fsm[u].state # "waiting_for_imei"
    /\ fsm' = [fsm EXCEPT ![u].state = "waiting_for_service_category"]
    /\ UNCHANGED <<call, ledger_log, aside, catalog, ledger, svc_callback, txn>>

\* handle_callback_query, data "cat_<category>": edit_text, update_data, set_state
callback_cat(u, category) ==
    /\ MayChat(u)
    /\ fsm' = [fsm EXCEPT ![u].selected_category = category,
                          ![u].state = "waiting_for_service"]
    /\ UNCHANGED <<call, ledger_log, aside, catalog, ledger, svc_callback, txn>>

\* handle_callback_query, data "svc_<id>", up to the await of edit_text
callback_svc(u, service_id) ==
    LET service == DictGet(services_by_id, service_id) IN
    /\ MayChat(u)
    /\ ~svc_callback[u]
    /\ service # NoService
    /\ fsm' = [fsm EXCEPT ![u].selected_service = service]
    /\ svc_callback' = [svc_callback EXCEPT ![u] = TRUE]
    /\ UNCHANGED <<call, ledger_log, aside, catalog, ledger, txn>>

\* handle_callback_query, data "svc_<id>", after edit_text: set_state if it
\* returned, nothing if it raised (the except clause only answers the callback)
callback_svc_edited(u, edited) ==
    /\ svc_callback[u]
    /\ svc_callback' = [svc_callback EXCEPT ![u] = FALSE]
    /\ fsm' = IF edited THEN [fsm EXCEPT ![u].state = "waiting_for_imei"] ELSE fsm
    /\ UNCHANGED <<call, ledger_log, aside, catalog, ledger, txn>>

\* handle_callback_query, data "back_to_categories": edit_text, set_state
callback_back(u) ==
    /\ MayChat(u)
    /\ fsm' = [fsm EXCEPT ![u].state = "waiting_for_service_category"]
    /\ UNCHANGED <<call, ledger_log, aside, catalog, ledger, svc_callback, txn>>

\* handle_callback_query, data "cancel": message.delete() and message.answer
\* are awaited first; state.clear() runs only if both returned
callback_cancel(u, delivered) ==
    /\ fsm' = IF delivered THEN [fsm EXCEPT ![u] = Cleared] ELSE fsm
    /\ UNCHANGED <<call, ledger_log, aside, catalog, ledger, svc_callback, txn>>

(***************************************************************************)
(* The owner's commands.                                                   *)
(***************************************************************************)
\* cmd_add_balance
cmd_add_balance(sender, target_user_id, amount) ==
    /\ is_owner(sender)
    /\ LET created == IF target_user_id \notin DOMAIN users
                      THEN DictSet(users, target_user_id,
                                   UserData("None", "Usuario", "None",
                                            ledger_log.clock))
                      ELSE users
           user == created[target_user_id]
       IN  /\ user.balance + amount <= MaxBalance
           /\ users' = DictSet(created, target_user_id,
                               [user EXCEPT !.balance = user.balance + amount])
           /\ users_file' = users'
    /\ UNCHANGED <<call, ledger_log, aside, catalog, fsm, svc_callback, txn>>

\* cmd_add_service
cmd_add_service(sender, service_id, title, price, category) ==
    /\ is_owner(sender)
    /\ category \in {"Apple", "Android", "General"}
    /\ service_id \notin DOMAIN services_by_id
    /\ LET new_service == [id |-> service_id, title |-> title, price |-> price,
                           category |-> category]
       IN  /\ SERVICES_DATA' = Append(SERVICES_DATA, new_service)
           /\ services_by_id' = DictSet(services_by_id, service_id, new_service)
           /\ services_by_category' =
                DictSet(services_by_category, category,
                        Append(IF category \in DOMAIN services_by_category
                               THEN services_by_category[category] ELSE <<>>,
                               new_service))
           /\ services_file' = [exists |-> TRUE,
                                 data |-> json_dump(SERVICES_DATA')]
    /\ UNCHANGED <<call, ledger_log, aside, ledger, fsm, svc_callback, txn>>

\* cmd_remove_service
cmd_remove_service(sender, service_id) ==
    /\ is_owner(sender)
    /\ service_id \in DOMAIN services_by_id
    /\ LET service == services_by_id[service_id]
           category == service.category
           rest == IF category \in DOMAIN services_by_category
                   THEN WithoutId(services_by_category[category], service_id)
                   ELSE <<>>
       IN  /\ SERVICES_DATA' = WithoutId(SERVICES_DATA, service_id)
           /\ services_by_id' = DictDel(services_by_id, service_id)
           /\ services_by_category' =
                IF category \notin DOMAIN services_by_category
                THEN services_by_category
                ELSE IF rest = <<>>
                THEN DictDel(services_by_category, category)
                ELSE DictSet(services_by_category, category, rest)
           /\ services_file' = [exists |-> TRUE,
                                 data |-> json_dump(SERVICES_DATA')]
    /\ UNCHANGED <<call, ledger_log, aside, ledger, fsm, svc_callback, txn>>

(***************************************************************************)
(* handle_imei_input.  One invocation is a slot of txn; its pc names the   *)
(* await it is suspended in, "done" that it returned and "raised" that an  *)
(* exception left it; `at` is the place where it ended.  `delivered` says  *)
(* whether the awaited Telegram calls of the step returned or raised.      *)
(***************************************************************************)
\* the handler ends at its current place
Finish(t, pc) == [txn EXCEPT ![t].pc = pc, ![t].at = txn[t].pc]

\* imei_input_invalid with state.clear() called after the re-prompt
imei_input_invalid_clears(u, text, delivered) ==
    /\ fsm[u].state = "waiting_for_imei"
    /\ ~validate_imei(text).is_valid
    /\ \E s \in Txns : Ended(s)
    /\ txn' = [txn EXCEPT ![NextTxn] =
                 [FreeTxn EXCEPT !.user = u,
                                 !.error = validate_imei(text).error,
                                 !.pc = IF delivered THEN "done" ELSE "raised",
                                 !.at = "invalid"]]
    /\ fsm' = IF delivered THEN [fsm EXCEPT ![u] = Cleared] ELSE fsm
    /\ UNCHANGED <<call, ledger_log, aside, catalog, ledger, svc_callback>>

\* lines 600-605: the identifier fails validation; re-prompt and return
imei_input_invalid(u, text, delivered) ==
    /\ fsm[u].state = "waiting_for_imei"
    /\ ~validate_imei(text).is_valid
    /\ \E s \in Txns : Ended(s)
    /\ txn' = [txn EXCEPT ![NextTxn] =
                 [FreeTxn EXCEPT !.user = u,
                                 !.error = validate_imei(text).error,
                                 !.pc = IF delivered THEN "done" ELSE "raised",
                                 !.at = "invalid"]]
    /\ UNCHANGED <<call, ledger_log, aside, catalog, ledger, fsm, svc_callback>>

\* the menu button "Cancelar": the waiting_for_imei filter of _setup_handlers
\* hands the text to handle_imei_input; in every other state
\* handle_category_selection calls cmd_cancel
menu_cancelar(u, delivered) ==
    IF fsm[u].state = "waiting_for_imei"
    THEN imei_input_invalid(u, CancelText, delivered)
    ELSE cmd_cancel(u)

\* lines 600-634: from validation to the first awaited message
imei_input_valid(u, text) ==
    /\ fsm[u].state = "waiting_for_imei"
    /\ validate_imei(text).is_valid
    /\ \E s \in Txns : Ended(s)
    /\ LET t == NextTxn
           clean_imei == validate_imei(text).clean
           service == fsm[u].selected_service
           created == get_or_create_user(users, u, from_user(u),
                                         ledger_log.clock)
           service_price == ParseFloat(service.price)
           begun == [FreeTxn EXCEPT !.user = u, !.imei = clean_imei,
                                    !.service = service, !.error = "NONE"]
       IN
       IF service = NoService
       THEN /\ txn' = [txn EXCEPT ![t] = [begun EXCEPT !.pc = "no_service"]]
            /\ UNCHANGED ledger
       ELSE /\ users' = created
            /\ users_file' = IF get_or_create_saves(users, u) THEN created
                             ELSE users_file
            /\ txn' = [txn EXCEPT ![t] =
                  IF ~service_price.ok
                  THEN [begun EXCEPT !.pc = "raised", !.at = "price"]
                  ELSE IF created[u].balance < service_price.cents /\ ~is_owner(u)
                  THEN [begun EXCEPT !.pc = "gate", !.price = service_price.cents]
                  ELSE [begun EXCEPT !.pc = "processing",
                                     !.price = service_price.cents]]
    /\ UNCHANGED <<call, ledger_log, aside, catalog, fsm, svc_callback>>

\* lines 611-614: no selected service; the error message, then state.clear()
imei_no_service(t, delivered) ==
    /\ txn[t].pc = "no_service"
    /\ IF delivered
       THEN /\ fsm' = [fsm EXCEPT ![txn[t].user] = Cleared]
            /\ txn' = Finish(t, "done")
       ELSE /\ txn' = Finish(t, "raised")
            /\ UNCHANGED fsm
    /\ UNCHANGED <<call, ledger_log, aside, catalog, ledger, svc_callback>>

\* lines 622-632: the balance gate refused; the message, state.clear(), the menu
imei_insufficient(t, delivered) ==
    /\ txn[t].pc = "gate"
    /\ IF delivered
       THEN /\ fsm' = [fsm EXCEPT ![txn[t].user] = Cleared]
            /\ txn' = Finish(t, "done")
       ELSE /\ txn' = Finish(t, "raised")
            /\ UNCHANGED fsm
    /\ UNCHANGED <<call, ledger_log, aside, catalog, ledger, svc_callback>>

\* lines 634-643: the "processing" message, then IMEIChecker.check_imei
imei_check(t, delivered, resp) ==
    /\ txn[t].pc = "processing"
    /\ IF delivered
       THEN LET response == check_imei(Settings, resp) IN
            txn' = [txn EXCEPT ![t].pc = "report",
                               ![t].prov = resp,
                               ![t].result = response.kind,
                               ![t].gets = response.gets,
                               ![t].clause = ExceptClause(response.kind)]
       ELSE txn' = Finish(t, "raised")
    /\ UNCHANGED <<call, ledger_log, aside, catalog, ledger, fsm, svc_callback>>

\* Reconcile with the debit also made when the call failed
ReconcileDebitsFailure(us, clause, user_id, service, price, imei) ==
    IF clause = "api"
    THEN [users |-> update_user_query(us, user_id, service.title, 0, imei, FALSE),
          calls |-> << [price |-> 0, success |-> FALSE] >>]
    ELSE [users |-> update_user_query(us, user_id, service.title, price, imei, TRUE),
          calls |-> << [price |-> price, success |-> TRUE] >>]

\* Reconcile with `except Exception` recording a failed query like `except APIError`
ReconcileRecordsUnexpected(us, clause, user_id, service, price, imei) ==
    IF clause = "ok"
    THEN [users |-> update_user_query(us, user_id, service.title, price, imei, TRUE),
          calls |-> << [price |-> price, success |-> TRUE] >>]
    ELSE [users |-> update_user_query(us, user_id, service.title, 0, imei, FALSE),
          calls |-> << [price |-> 0, success |-> FALSE] >>]

\* Reconcile with the failed query recorded in the except clause and once more
\* after the try statement
ReconcileRecordsTwice(us, clause, user_id, service, price, imei) ==
    IF clause = "ok"
    THEN [users |-> update_user_query(us, user_id, service.title, price, imei, TRUE),
          calls |-> << [price |-> price, success |-> TRUE] >>]
    ELSE [users |-> update_user_query(
                       update_user_query(us, user_id, service.title, 0, imei, FALSE),
                       user_id, service.title, 0, imei, FALSE),
          calls |-> << [price |-> 0, success |-> FALSE],
                       [price |-> 0, success |-> FALSE] >>]

\* the clause of the try statement that ran to its end: the accounts
\* afterwards and the calls of update_user_query it made
Reconcile(us, clause, user_id, service, price, imei) ==
    IF clause = "ok"
    THEN [users |-> update_user_query(us, user_id, service.title, price, imei, TRUE),
          calls |-> << [price |-> price, success |-> TRUE] >>]
    ELSE IF clause = "api"
    THEN [users |-> update_user_query(us, user_id, service.title, 0, imei, FALSE),
          calls |-> << [price |-> 0, success |-> FALSE] >>]
    ELSE [users |-> us, calls |-> <<>>]

\* lines 645-668: delete the "processing" message, send the clause's message,
\* update the ledger, state.clear().  A raise in the try body enters the
\* `except Exception` clause; a raise in an except clause leaves the handler.
imei_report(t, delivered) ==
    /\ txn[t].pc = "report"
    /\ LET u == txn[t].user
           clause == txn[t].clause
           r == Reconcile(users, clause, u, txn[t].service, txn[t].price,
                          txn[t].imei)
       IN
       IF delivered
       THEN /\ users' = r.users
            /\ users_file' = IF r.calls # <<>> /\ u \in DOMAIN users
                             THEN r.users ELSE users_file
            /\ fsm' = [fsm EXCEPT ![u] = Cleared]
            /\ txn' = [txn EXCEPT ![t].pc = "final",
                                  ![t].calls = txn[t].calls \o r.calls]
       ELSE /\ txn' = IF clause = "ok"
                      THEN [txn EXCEPT ![t].clause = "exc"]
                      ELSE Finish(t, "raised")
            /\ UNCHANGED <<ledger, fsm>>
    /\ UNCHANGED <<call, ledger_log, aside, catalog, svc_callback>>

\* lines 669-670: sleep, then the closing message
imei_final(t, delivered) ==
    /\ txn[t].pc = "final"
    /\ txn' = Finish(t, IF delivered THEN "done" ELSE "raised")
    /\ UNCHANGED <<call, ledger_log, aside, catalog, ledger, fsm, svc_callback>>

Next ==
    \/ \E u \in UserIds : cmd_start(u)
    \/ \E u \in UserIds : cmd_cancel(u)
    \/ \E u \in UserIds : menu_consultar(u)
    \/ \E u \in UserIds, c \in Categories : callback_cat(u, c)
    \/ \E u \in UserIds, i \in ServiceIds : callback_svc(u, i)
    \/ \E u \in UserIds, e \in BOOLEAN : callback_svc_edited(u, e)
    \/ \E u \in UserIds : callback_back(u)
    \/ \E u \in UserIds, d \in BOOLEAN : callback_cancel(u, d)
    \/ \E u \in UserIds, d \in BOOLEAN : menu_cancelar(u, d)
    \/ \E s \in UserIds, u \in UserIds, a \in AddAmounts : cmd_add_balance(s, u, a)
    \/ \E s \in UserIds, i \in ServiceIds, p \in PriceTexts, c \in Categories :
          cmd_add_service(s, i, "Info", p, c)
    \/ \E s \in UserIds, i \in ServiceIds : cmd_remove_service(s, i)
    \/ \E u \in UserIds, x \in ImeiInputs, d \in BOOLEAN : imei_input_invalid(u, x, d)
    \/ \E u \in UserIds, x \in ImeiInputs : imei_input_valid(u, x)
    \/ \E t \in Txns, d \in BOOLEAN : imei_no_service(t, d)
    \/ \E t \in Txns, d \in BOOLEAN : imei_insufficient(t, d)
    \/ \E t \in Txns, d \in BOOLEAN, r \in ProviderScripts : imei_check(t, d, r)
    \/ \E t \in Txns, d \in BOOLEAN : imei_report(t, d)
    \/ \E t \in Txns, d \in BOOLEAN : imei_final(t, d)

Spec == Init /\ [][Next]_vars

(***************************************************************************)
(* IMEIChecker.check_imei taken alone: one call, made with a configuration *)
(* object and against a provider whose answers to the successive GETs are  *)
(* resp.  The bot itself is left out: no account, no dialog, no handler.   *)
(***************************************************************************)
\* a configuration object that carries imei_api_key, the attribute line 35
\* reads; IMEIChecker.__init__ keeps whatever object it is given
KeyedSettings == Settings \cup {"imei_api_key"}

Configs == {Settings, KeyedSettings}

\* what the provider does to each of the max_retries GETs a call can make
Scripts == [1..MAX_RETRIES -> Responses]

CheckInit ==
    /\ SERVICES_DATA = <<>>
    /\ services_by_id = <<>>
    /\ services_by_category = <<>>
    /\ services_file = [exists |-> FALSE, data |-> <<>>]
    /\ users = <<>>
    /\ users_file = <<>>
    /\ fsm = [u \in UserIds |-> Cleared]
    /\ svc_callback = [u \in UserIds |-> FALSE]
    /\ txn = <<>>
    /\ call \in [config : Configs, resp : Scripts, done : {FALSE},
                 result : {NoResult}]
    /\ ledger_log = NoLog
    /\ AsideIdle

\* the call runs from line 34 to its return or raise
checker_check_imei ==
    /\ ~call.done
    /\ call.resp # <<>>
    /\ call' = [call EXCEPT !.done = TRUE,
                            !.result = check_imei(call.config, call.resp)]
    /\ UNCHANGED <<ledger_log, aside, catalog, ledger, fsm, svc_callback, txn>>

CheckNext == checker_check_imei

CheckSpec == CheckInit /\ [][CheckNext]_vars

(***************************************************************************)
(* Overlapping submissions.  A user who is asked for the identifier sends  *)
(* it more than once; every message starts its own handle_imei_input, and  *)
(* the handlers interleave at their awaits.  The account holds nothing or  *)
(* the price of one query.                                                 *)
(***************************************************************************)
RaceBalances == {0, ParseFloat(InitialServices[1].price).cents}

RaceInit ==
    /\ SERVICES_DATA = InitialServices
    /\ services_by_id = ById(InitialServices)
    /\ services_by_category = ByCategory(InitialServices)
    /\ services_file = [exists |-> FALSE, data |-> <<>>]
    /\ \E b \in RaceBalances :
          users = DictSet(<<>>, "user",
                          [UserData("user", "user", "None", 0)
                              EXCEPT !.balance = b])
    /\ users_file = users
    /\ fsm = [u \in UserIds |->
                IF u = "user"
                THEN [state |-> "waiting_for_imei",
                      selected_category |-> InitialServices[1].category,
                      selected_service |-> InitialServices[1]]
                ELSE Cleared]
    /\ svc_callback = [u \in UserIds |-> FALSE]
    /\ txn = [t \in 1..MaxRaceTxn |-> FreeTxn]
    /\ call = NoCall
    /\ ledger_log = NoLog
    /\ AsideIdle

RaceNext ==
    \/ \E u \in UserIds, x \in ImeiInputs : imei_input_valid(u, x)
    \/ \E t \in Txns, d \in BOOLEAN : imei_insufficient(t, d)
    \/ \E t \in Txns, d \in BOOLEAN, r \in ProviderScripts : imei_check(t, d, r)
    \/ \E t \in Txns, d \in BOOLEAN : imei_report(t, d)
    \/ \E t \in Txns, d \in BOOLEAN : imei_final(t, d)

RaceSpec == RaceInit /\ [][RaceNext]_vars

(***************************************************************************)
(* UserDatabase taken alone.  get_or_create_user and the calls of          *)
(* update_user_query that the try statement of handle_imei_input makes are *)
(* applied in any order, for known and unknown ids; every call reads the   *)
(* clock, which then advances.  ledger_log.calls keeps, for every user id, *)
(* the arguments of the calls of update_user_query made with it.           *)
(***************************************************************************)
Profiles ==
    { [username |-> "ana", first_name |-> "Ana", last_name |-> "None"],
      [username |-> "None", first_name |-> "Ann", last_name |-> "Lee"] }

Clauses == {"ok", "api", "exc"}

\* identifiers validate_imei accepts, as it hands them on
CleanImeis ==
    { validate_imei(x).clean :
        x \in { y \in ImeiInputs \cup {<<"1", "2", "3", "4", "5", "6", "7", "8">>} :
                  validate_imei(y).is_valid } }

LedgerInit ==
    /\ SERVICES_DATA = InitialServices
    /\ services_by_id = ById(InitialServices)
    /\ services_by_category = ByCategory(InitialServices)
    /\ services_file = [exists |-> FALSE, data |-> <<>>]
    /\ \/ users = <<>>
       \/ users = DictSet(<<>>, "user",
                          [UserData("None", "Usuario", "None", 0)
                              EXCEPT !.balance = MaxBalance])
    /\ users_file = users
    /\ fsm = [u \in UserIds |-> Cleared]
    /\ svc_callback = [u \in UserIds |-> FALSE]
    /\ txn = <<>>
    /\ call = NoCall
    /\ ledger_log = [NoLog EXCEPT !.clock = 1]
    /\ AsideIdle

\* UserDatabase.get_or_create_user, called at the time the clock shows
db_get_or_create_user(u, profile) ==
    /\ users' = get_or_create_user(users, u, profile, ledger_log.clock)
    /\ users_file' = IF get_or_create_saves(users, u) THEN users' ELSE users_file
    /\ ledger_log' = [ledger_log EXCEPT !.clock = @ + 1]
    /\ UNCHANGED <<call, aside, catalog, fsm, svc_callback, txn>>

\* the arguments of the calls of update_user_query a clause made for user u
LoggedCalls(u, service, imei, calls) ==
    [k \in 1..Len(calls) |->
        [known |-> u \in DOMAIN users, title |-> service.title,
         price |-> calls[k].price, imei |-> imei, success |-> calls[k].success]]

\* lines 649-666: the try statement ended in the clause, for a query of the
\* service with the identifier imei
db_reconcile(u, clause, service, imei) ==
    LET r == Reconcile(users, clause, u, service,
                       ParseFloat(service.price).cents, imei)
    IN  /\ users' = r.users
        /\ users_file' = IF r.calls # <<>> /\ u \in DOMAIN users
                         THEN r.users ELSE users_file
        /\ ledger_log' = [clock |-> ledger_log.clock + 1,
                          calls |-> [ledger_log.calls EXCEPT ![u] =
                                       @ \o LoggedCalls(u, service, imei, r.calls)]]
        /\ UNCHANGED <<call, aside, catalog, fsm, svc_callback, txn>>

LedgerNext ==
    \/ \E u \in UserIds, p \in Profiles :
          ledger_log.clock <= MaxLedgerOps /\ db_get_or_create_user(u, p)
    \/ \E u \in UserIds, c \in Clauses, x \in CleanImeis :
          ledger_log.clock <= MaxLedgerOps
          /\ db_reconcile(u, c, InitialServices[1], x)

LedgerSpec == LedgerInit /\ [][LedgerNext]_vars

(***************************************************************************)
(* Repeated queries.  Two users with fresh accounts repeat a query; the    *)
(* k-th query of a user carries an identifier ending in the numeral of k,  *)
(* succeeds when k is odd and ends in `except APIError` when k is even.    *)
(***************************************************************************)
\* the digit character of a value
DigitChar(n) == CHOOSE c \in Digits : DigitVal(c) = n

\* an identifier of 15 digits whose last four are the numeral of k
ImeiOf(k) ==
    <<"4", "9", "0", "1", "5", "4", "2", "0", "3", "2", "3">> \o
    << DigitChar((k \div 1000) % 10), DigitChar((k \div 100) % 10),
       DigitChar((k \div 10) % 10), DigitChar(k % 10) >>

HistoryInit ==
    /\ SERVICES_DATA = InitialServices
    /\ services_by_id = ById(InitialServices)
    /\ services_by_category = ByCategory(InitialServices)
    /\ services_file = [exists |-> FALSE, data |-> <<>>]
    /\ users = [u \in UserIds |->
                  UserData(from_user(u).username, from_user(u).first_name,
                           from_user(u).last_name, 0)]
    /\ users_file = users
    /\ fsm = [u \in UserIds |-> Cleared]
    /\ svc_callback = [u \in UserIds |-> FALSE]
    /\ txn = <<>>
    /\ call = NoCall
    /\ ledger_log = NoLog
    /\ AsideIdle

\* the next query of user u
db_repeat_query(u) ==
    LET k == Len(ledger_log.calls[u]) + 1
    IN  /\ k <= MaxRecords
        /\ db_reconcile(u, IF k % 2 = 1 THEN "ok" ELSE "api",
                        InitialServices[1], ImeiOf(k))

HistoryNext == \E u \in UserIds : db_repeat_query(u)

HistorySpec == HistoryInit /\ [][HistoryNext]_vars

(***************************************************************************)
(* The catalog across restarts.  The owner adds and removes services and   *)
(* the process is restarted: IMEIBot.__init__ runs again on the module's   *)
(* shipped SERVICES_DATA and on the files the last run left.               *)
(***************************************************************************)
CatalogIds == 1..MaxCatalogIds

AddCategories == {"Apple", "Android"}

\* _load_services: the list SERVICES_DATA holds after it ran on the shipped list
load_services(shipped) ==
    IF services_file.exists THEN json_load(services_file.data) ELSE shipped

\* a new process: the module is imported, then IMEIBot.__init__ (lines 43-62);
\* UserDatabase.__init__ loads the users file; MemoryStorage starts empty
restart ==
    /\ services_by_id' = ById(InitialServices)
    /\ SERVICES_DATA' = load_services(InitialServices)
    /\ services_by_category' = ByCategory(SERVICES_DATA')
    /\ users' = users_file
    /\ fsm' = [u \in UserIds |-> Cleared]
    /\ svc_callback' = [u \in UserIds |-> FALSE]
    /\ txn' = [t \in Txns |-> FreeTxn]
    /\ UNCHANGED <<call, ledger_log, aside, services_file, users_file>>

CatalogInit ==
    /\ SERVICES_DATA = InitialServices
    /\ services_by_id = ById(InitialServices)
    /\ services_by_category = ByCategory(InitialServices)
    /\ services_file = [exists |-> FALSE, data |-> <<>>]
    /\ users = <<>>
    /\ users_file = <<>>
    /\ fsm = [u \in UserIds |-> Cleared]
    /\ svc_callback = [u \in UserIds |-> FALSE]
    /\ txn = <<>>
    /\ call = NoCall
    /\ ledger_log = NoLog
    /\ AsideIdle

CatalogNext ==
    \/ \E i \in CatalogIds, c \in AddCategories :
          Len(SERVICES_DATA) < MaxCatalogLen
          /\ cmd_add_service(OWNER_ID, i, "Pro", "0.50", c)
    \/ \E i \in CatalogIds : cmd_remove_service(OWNER_ID, i)
    \/ restart

CatalogSpec == CatalogInit /\ [][CatalogNext]_vars

(***************************************************************************)
(* The parts modelled on their own start with the bot not constructed.     *)
(***************************************************************************)
bot == <<catalog, ledger, fsm, svc_callback, txn, call, ledger_log>>

BotIdle ==
    /\ SERVICES_DATA = <<>>
    /\ services_by_id = <<>>
    /\ services_by_category = <<>>
    /\ services_file = [exists |-> FALSE, data |-> <<>>]
    /\ users = <<>>
    /\ users_file = <<>>
    /\ fsm = [u \in UserIds |-> Cleared]
    /\ svc_callback = [u \in UserIds |-> FALSE]
    /\ txn = <<>>
    /\ call = NoCall
    /\ ledger_log = NoLog

(***************************************************************************)
(* IMEIValidator.validate_imei taken alone.  The texts are the leading     *)
(* digits of a few numbers, typed plainly, with separators, or with        *)
(* letters around them.                                                    *)
(***************************************************************************)
MaxTyped == 18       \* digits of the longest text given to validate_imei

\* two numbers the specification names, and neighbours of them
Numbers ==
    { <<"4", "9", "0", "1", "5", "4", "2", "0", "3", "2", "3", "7", "5", "1", "8",
        "1", "2", "3", "4">>,
      <<"4", "9", "0", "1", "5", "4", "2", "0", "3", "2", "3", "7", "5", "1", "9",
        "0", "0", "0", "0">>,
      <<"1", "2", "3", "4", "5", "6", "7", "8", "9", "0", "1", "2", "3", "4", "5",
        "6", "7", "8", "9">>,
      <<"3", "5", "6", "9", "3", "8", "0", "3", "5", "6", "4", "3", "8", "0", "9",
        "9", "9", "9", "9">>,
      <<"0", "0", "0", "0", "0", "0", "0", "0", "0", "0", "0", "0", "0", "0", "0",
        "0", "0", "0", "0">> }

Typings == {"plain", "separated", "lettered"}

\* the first n digits of number, as the user types them
Typed(number, n, typing) ==
    LET digits == SubSeq(number, 1, n) IN
    CASE typing = "plain" -> digits
      [] typing = "separated" ->
             IF n < 2 THEN <<" ">> \o digits
             ELSE SubSeq(digits, 1, 2) \o <<"-">> \o SubSeq(digits, 3, n) \o <<" ">>
      [] typing = "lettered" -> <<"I", "D", ":">> \o digits \o <<"x">>

ValidatorInputs ==
    { Typed(number, n, typing) : number \in Numbers, n \in 0..MaxTyped,
                                  typing \in Typings }

ValidatorInit ==
    /\ BotIdle
    /\ validation \in [imei : ValidatorInputs, done : {FALSE},
                       result : {NoValidation.result}]
    /\ formatting = NoFormatting
    /\ autopinger = NoPinger
    /\ http = NoReply
    /\ solicitudes_db = NoRequests

\* the call runs from line 9 to its return
validator_validate_imei ==
    /\ ~validation.done
    /\ validation' = [validation EXCEPT !.done = TRUE,
                                        !.result = validate_imei(validation.imei)]
    /\ UNCHANGED <<bot, formatting, autopinger, http, solicitudes_db>>

ValidatorNext == validator_validate_imei

ValidatorSpec == ValidatorInit /\ [][ValidatorNext]_vars

(***************************************************************************)
(* app/services/response_formatter.py.  A text is a tuple of characters;   *)
(* every pass of _clean_html_content marks the positions it removes and    *)
(* the characters it puts in, and the marked positions are then left out.  *)
(***************************************************************************)
DETAILS_CAP == 1500     \* response_formatter.py: clean_result[:1500]

NBSP == "nbsp"          \* stands for the character U+00A0
Dropped == ""           \* marks a position a pass removes

Unmarked(marked) == SelectSeq(marked, LAMBDA c : c # Dropped)

\* the character references that occur in the bodies, as html.unescape
\* decodes them; the closing ";" may be missing
Entities ==
    { [name |-> <<"&", "l", "t">>, char |-> "<"],
      [name |-> <<"&", "g", "t">>, char |-> ">"],
      [name |-> <<"&", "a", "m", "p">>, char |-> "&"],
      [name |-> <<"&", "q", "u", "o", "t">>, char |-> "\""],
      [name |-> <<"&", "n", "b", "s", "p">>, char |-> NBSP] }

\* the text `old` stands in s from position i on
StandsAt(s, i, old) ==
    /\ i + Len(old) - 1 <= Len(s)
    /\ s[i] = old[1]
    /\ SubSeq(s, i, i + Len(old) - 1) = old

\* the reference that starts at position i: its length (0 if there is none)
\* and the character it denotes
RefAt(s, i) ==
    LET hits == {e \in Entities : StandsAt(s, i, e.name)} IN
    IF hits = {} THEN [len |-> 0, char |-> Dropped]
    ELSE LET e == CHOOSE x \in hits : TRUE
             end == i + Len(e.name)
         IN  [len |-> IF end <= Len(s) /\ s[end] = ";" THEN Len(e.name) + 1
                      ELSE Len(e.name),
              char |-> e.char]

\* html.unescape(str(html_content)): one pass, the decoded text is not
\* decoded again
unescape(s) ==
    LET refs == [i \in 1..Len(s) |-> RefAt(s, i)]
        amps == {i \in 1..Len(s) : refs[i].len > 0}
    IN  Unmarked([i \in 1..Len(s) |->
                    IF i \in amps THEN refs[i].char
                    ELSE IF \E j \in amps : j < i /\ i < j + refs[j].len
                    THEN Dropped
                    ELSE s[i]])

\* decoded.replace(old, new) for the pairs of `replacements`: no `old`
\* overlaps itself and every `new` is one character
Replace(s, old, new) ==
    LET starts == {i \in 1..Len(s) : StandsAt(s, i, old)} IN
    Unmarked([i \in 1..Len(s) |->
                IF i \in starts THEN new
                ELSE IF \E j \in starts : j < i /\ i < j + Len(old) THEN Dropped
                ELSE s[i]])

\* lines 53-61
replacements ==
    << << <<"\\", "u", "0", "0", "3", "C", "b", "r", "\\", "u", "0", "0", "3", "E">>,
          "\n" >>,
       << <<"<", "b", "r", ">">>, "\n" >>,
       << <<"<", "b", "r", "/", ">">>, "\n" >>,
       << <<"&", "n", "b", "s", "p", ";">>, " " >>,
       << <<"&", "a", "m", "p", ";">>, "&" >>,
       << <<"&", "l", "t", ";">>, "<" >>,
       << <<"&", "g", "t", ";">>, ">" >> >>

RECURSIVE ReplaceEach(_, _)
\* the loop of lines 63-64 from the k-th pair on
ReplaceEach(s, k) ==
    IF k > Len(replacements) THEN s
    ELSE ReplaceEach(Replace(s, replacements[k][1], replacements[k][2]), k + 1)

\* re.sub(r'<[^>]*>', '', decoded): a position is inside a tag when a "<"
\* stands at or before it with no ">" in between, and a ">" at or after it
strip_tags(s) ==
    LET opens == {j \in 1..Len(s) : s[j] = "<"}
        closes == {k \in 1..Len(s) : s[k] = ">"}
        InTag(i) ==
            /\ \E k \in closes : k >= i
            /\ \E j \in opens : j <= i /\ \A k \in closes : ~(j <= k /\ k < i)
    IN  Unmarked([i \in 1..Len(s) |-> IF InTag(i) THEN Dropped ELSE s[i]])

\* what str.strip() removes at the ends of a line
Whitespace == {" ", "\t", "\r", NBSP}

\* lines 70-76: split at "\n", strip every line, leave the empty lines out
\* and join with "\n".  A gap is a run of whitespace and line breaks: at an
\* end of the text it goes, without a line break it stays, and with line
\* breaks it becomes one "\n"
clean_lines(s) ==
    LET n == Len(s)
        gaps == {i \in 1..n : s[i] \in Whitespace \cup {"\n"}}
        Lo(i) == CHOOSE j \in gaps :
                     /\ j <= i
                     /\ \A m \in j..i : m \in gaps
                     /\ (j = 1 \/ (j - 1) \notin gaps)
        Hi(i) == CHOOSE j \in gaps :
                     /\ j >= i
                     /\ \A m \in i..j : m \in gaps
                     /\ (j = n \/ (j + 1) \notin gaps)
        Breaks(i) == {m \in Lo(i)..Hi(i) : s[m] = "\n"}
    IN  Unmarked([i \in 1..n |->
                    IF i \notin gaps THEN s[i]
                    ELSE IF Lo(i) = 1 \/ Hi(i) = n THEN Dropped
                    ELSE IF Breaks(i) = {} THEN s[i]
                    ELSE IF s[i] = "\n" /\ \A m \in Breaks(i) : i <= m THEN "\n"
                    ELSE Dropped])

\* "No hay información disponible"
Placeholder ==
    <<"N", "o", " ", "h", "a", "y", " ", "i", "n", "f", "o", "r", "m", "a", "c",
      "i", "ó", "n", " ", "d", "i", "s", "p", "o", "n", "i", "b", "l", "e">>

\* result_raw is the value of "result": absent (the default ""), null or a
\* text
clean_html_content(html_content) ==
    IF html_content.kind # "str" \/ html_content.text = <<>>
    THEN Placeholder
    ELSE clean_lines(strip_tags(ReplaceEach(unescape(html_content.text), 1)))

\* s[:n]
FirstN(s, n) == IF Len(s) <= n THEN s ELSE SubSeq(s, 1, n)

\* format_imei_response with the marker decided on the body as received
format_imei_response_marks_raw_length(response_json) ==
    IF response_json.type # "dict"
    THEN [error |-> TRUE, has_details |-> FALSE, details |-> <<>>,
          truncated |-> FALSE]
    ELSE LET clean_result == clean_html_content(response_json.result) IN
         IF clean_result = <<>>
         THEN [error |-> FALSE, has_details |-> FALSE, details |-> <<>>,
               truncated |-> FALSE]
         ELSE [error |-> FALSE, has_details |-> TRUE,
               details |-> FirstN(clean_result, DETAILS_CAP),
               truncated |-> Len(response_json.result.text) > DETAILS_CAP]

\* the message returned: the header of lines 23-31 does not use the body and
\* is left out; a payload that is not a dict has no .get, and line 40 catches
\* the AttributeError
format_imei_response(response_json) ==
    IF response_json.type # "dict"
    THEN [error |-> TRUE, has_details |-> FALSE, details |-> <<>>,
          truncated |-> FALSE]
    ELSE LET clean_result == clean_html_content(response_json.result) IN
         IF clean_result = <<>>
         THEN [error |-> FALSE, has_details |-> FALSE, details |-> <<>>,
               truncated |-> FALSE]
         ELSE [error |-> FALSE, has_details |-> TRUE,
               details |-> FirstN(clean_result, DETAILS_CAP),
               truncated |-> Len(clean_result) > DETAILS_CAP]

(***************************************************************************)
(* ResponseFormatter.format_imei_response taken alone.  The bodies are a   *)
(* run of plain characters with markup around it, of lengths on both sides *)
(* of the cap.                                                             *)
(***************************************************************************)
MaxFill == 1502      \* plain characters of the longest body
FillSpan == 5        \* the bodies have MaxFill - FillSpan .. MaxFill of them

\* n plain characters, the i-th one telling its position
Fill(n) == [i \in 1..n |-> CHOOSE c \in Digits : DigitVal(c) = i % 10]

Markups ==
    {"plain", "bold", "escaped_tag", "twice_escaped", "breaks", "coded_break",
     "blanks", "nbsp", "escaped_nbsp", "open_only"}

\* the body the provider sends for a markup around n plain characters
Body(markup, n) ==
    CASE markup = "plain" -> Fill(n)
      [] markup = "bold" ->
             <<"<", "b", ">">> \o Fill(n) \o <<"<", "/", "b", ">">>
      [] markup = "escaped_tag" ->
             <<"&", "l", "t", ";", "b", "&", "g", "t", ";">> \o Fill(n)
      [] markup = "twice_escaped" ->
             <<"&", "a", "m", "p", ";", "l", "t", ";">> \o Fill(n)
             \o <<"&", "a", "m", "p", ";", "g", "t", ";">>
      [] markup = "breaks" ->
             <<"A", "<", "b", "r", ">">> \o Fill(n)
             \o <<"<", "b", "r", "/", ">", " ", " ", "B">>
      [] markup = "coded_break" ->
             <<"A", "\\", "u", "0", "0", "3", "C", "b", "r", "\\", "u", "0", "0",
               "3", "E">> \o Fill(n)
      [] markup = "blanks" ->
             <<" ", " ">> \o Fill(n) \o <<" ", "\n", "\n", " ", "x", " ", "y", "\t">>
      [] markup = "nbsp" ->
             <<"&", "n", "b", "s", "p", ";", "x", "&", "n", "b", "s", "p">>
             \o Fill(n)
      [] markup = "escaped_nbsp" ->
             <<"x", "&", "a", "m", "p", ";", "n", "b", "s", "p", ";">> \o Fill(n)
      [] markup = "open_only" -> <<"<">> \o Fill(n)

FillLengths == {0} \cup ((MaxFill - FillSpan)..MaxFill)

Payloads ==
    { [type |-> "dict", result |-> [kind |-> "str", text |-> Body(markup, n)]] :
          markup \in Markups, n \in FillLengths }
    \cup { [type |-> "dict", result |-> [kind |-> k, text |-> <<>>]] :
               k \in {"absent", "null"} }
    \cup { [type |-> "list", result |-> [kind |-> "absent", text |-> <<>>]] }

FormatterInit ==
    /\ BotIdle
    /\ validation = NoValidation
    /\ formatting \in [payload : Payloads, done : {FALSE}, message : {NoMessage}]
    /\ autopinger = NoPinger
    /\ http = NoReply
    /\ solicitudes_db = NoRequests

\* the call runs from line 13 to its return
formatter_format_imei_response ==
    /\ ~formatting.done
    /\ formatting' = [formatting EXCEPT
                          !.done = TRUE,
                          !.message = format_imei_response(formatting.payload)]
    /\ UNCHANGED <<bot, validation, autopinger, http, solicitudes_db>>

FormatterNext == formatter_format_imei_response

FormatterSpec == FormatterInit /\ [][FormatterNext]_vars

(***************************************************************************)
(* app/main.py: the admin endpoints add_credits and set_credits, called    *)
(* on the running process (bot_instance is set, the accounts are those of  *)
(* the users file).  Neither endpoint awaits before db.save(), so a        *)
(* request runs to its answer in one step.                                 *)
(***************************************************************************)
MaxCredit == 100     \* cap on a balance reached through the admin endpoints

ADMIN_KEY == "admin_key"             \* settings.admin_key
AdminKeys == {ADMIN_KEY, "guess"}    \* request.admin_key
CreditAmounts == {-50, 50}           \* request.credits of add_credits (cents)
SetAmounts == {0, MaxCredit}         \* request.credits of set_credits (cents)

AdminInit ==
    /\ SERVICES_DATA = InitialServices
    /\ services_by_id = ById(InitialServices)
    /\ services_by_category = ByCategory(InitialServices)
    /\ services_file = [exists |-> FALSE, data |-> <<>>]
    /\ \/ users = DictSet(<<>>, OWNER_ID, UserData("None", "Usuario", "None", 0))
       \/ users = DictSet(DictSet(<<>>, OWNER_ID,
                                  UserData("None", "Usuario", "None", 0)),
                          "user", UserData("user", "user", "None", 0))
    /\ users_file = users
    /\ fsm = [u \in UserIds |-> Cleared]
    /\ svc_callback = [u \in UserIds |-> FALSE]
    /\ txn = <<>>
    /\ call = NoCall
    /\ ledger_log = NoLog
    /\ AsideIdle

\* the status the endpoints answer with: 401 at lines 223-224 and 277-278,
\* 404 at lines 227-228 and 281-282; UserDatabase has no method save, so
\* bot_instance.db.save() at lines 235 and 289 raises AttributeError, which
\* lines 264-266 and 316-318 turn into 500
AdminStatus(user_id, admin_key) ==
    IF admin_key # ADMIN_KEY THEN 401
    ELSE IF user_id \notin DOMAIN users THEN 404
    ELSE 500

\* what the process remembers of the request answered last
AdminReply(endpoint, user_id, admin_key) ==
    [endpoint |-> endpoint, status |-> AdminStatus(user_id, admin_key),
     user_id |-> user_id,
     before |-> IF user_id \in DOMAIN users THEN users[user_id].balance ELSE 0]

\* POST /admin/user/add_credits
add_credits(user_id, credits, admin_key) ==
    /\ user_id \in DOMAIN users
       => /\ users[user_id].balance + credits <= MaxCredit
          /\ users[user_id].balance + credits >= 0 - MaxCredit
    /\ users' = IF AdminStatus(user_id, admin_key) = 500
                THEN [users EXCEPT ![user_id].balance = @ + credits]
                ELSE users
    /\ http' = AdminReply("add_credits", user_id, admin_key)
    /\ UNCHANGED <<catalog, users_file, fsm, svc_callback, txn, call, ledger_log,
                   validation, formatting, autopinger, solicitudes_db>>

\* POST /admin/user/set_credits
set_credits(user_id, credits, admin_key) ==
    /\ users' = IF AdminStatus(user_id, admin_key) = 500
                THEN [users EXCEPT ![user_id].balance = credits]
                ELSE users
    /\ http' = AdminReply("set_credits", user_id, admin_key)
    /\ UNCHANGED <<catalog, users_file, fsm, svc_callback, txn, call, ledger_log,
                   validation, formatting, autopinger, solicitudes_db>>

AdminNext ==
    \/ \E u \in UserIds, c \in CreditAmounts, k \in AdminKeys : add_credits(u, c, k)
    \/ \E u \in UserIds, c \in SetAmounts, k \in AdminKeys : set_credits(u, c, k)

AdminSpec == AdminInit /\ [][AdminNext]_vars

(***************************************************************************)
(* app/services/autopinger.py.  tasks[t] is the ping loop task created by  *)
(* the t-th start() that found the pinger enabled with a URL; task is the  *)
(* handle self.task (0 for None).  start() and stop() are called one after *)
(* the other, as lifespan and start_polling call them; stop() is suspended *)
(* at `await self.task` until the task it cancelled has ended.             *)
(***************************************************************************)
MaxPingTasks == 3    \* ping loop tasks created
MaxPings == 1        \* pings counted for a task

PingerUrls == {"", "https://host/health"}    \* config.autopinger_url

PingerInit ==
    /\ BotIdle
    /\ validation = NoValidation
    /\ formatting = NoFormatting
    /\ autopinger \in [enabled : BOOLEAN, url : PingerUrls, task : {0},
                       tasks : {<<>>}, stop : {NoPinger.stop}]
    /\ http = NoReply
    /\ solicitudes_db = NoRequests

\* no call of stop() is suspended
PingerFree == autopinger.stop.pc # "awaiting"

\* AutoPinger.start, lines 32-38: a new task every time, and the handle of
\* the task created before is overwritten
pinger_start ==
    /\ PingerFree
    /\ Len(autopinger.tasks) < MaxPingTasks
    /\ autopinger' =
           IF autopinger.enabled /\ autopinger.url # ""
           THEN [autopinger EXCEPT
                     !.tasks = Append(@, [state |-> "running", pings |-> 0]),
                     !.task = Len(autopinger.tasks) + 1,
                     !.stop = NoPinger.stop]
           ELSE [autopinger EXCEPT !.stop = NoPinger.stop]
    /\ UNCHANGED <<bot, validation, formatting, http, solicitudes_db>>

\* _ping_loop, lines 52-55: one round of a task that is not cancelled
ping_loop_round(t) ==
    /\ autopinger.tasks[t].state = "running"
    /\ autopinger.tasks[t].pings < MaxPings
    /\ autopinger' = [autopinger EXCEPT !.tasks[t].pings = @ + 1]
    /\ UNCHANGED <<bot, validation, formatting, http, solicitudes_db>>

\* AutoPinger.stop, lines 40-46: cancel the task of the handle and wait for
\* it; with no handle, or a handle whose task is done, return at once
pinger_stop ==
    /\ PingerFree
    /\ autopinger' =
           IF autopinger.task # 0
              /\ autopinger.tasks[autopinger.task].state # "done"
           THEN [autopinger EXCEPT
                     !.tasks[autopinger.task].state = "cancelled",
                     !.stop = [pc |-> "awaiting", awaited |-> autopinger.task]]
           ELSE [autopinger EXCEPT !.stop = [pc |-> "returned", awaited |-> 0]]
    /\ UNCHANGED <<bot, validation, formatting, http, solicitudes_db>>

\* _ping_loop, lines 56-58: CancelledError is raised at the await the task
\* is suspended in, and the loop breaks
ping_loop_cancelled(t) ==
    /\ autopinger.tasks[t].state = "cancelled"
    /\ autopinger' = [autopinger EXCEPT !.tasks[t].state = "done"]
    /\ UNCHANGED <<bot, validation, formatting, http, solicitudes_db>>

\* AutoPinger.stop, lines 44-48: the awaited task has ended; stop returns
pinger_stop_returns ==
    /\ autopinger.stop.pc = "awaiting"
    /\ autopinger.tasks[autopinger.stop.awaited].state = "done"
    /\ autopinger' = [autopinger EXCEPT !.stop = [pc |-> "returned", awaited |-> 0]]
    /\ UNCHANGED <<bot, validation, formatting, http, solicitudes_db>>

PingerNext ==
    \/ pinger_start
    \/ \E t \in 1..MaxPingTasks : t <= Len(autopinger.tasks) /\ ping_loop_round(t)
    \/ pinger_stop
    \/ \E t \in 1..MaxPingTasks : t <= Len(autopinger.tasks) /\ ping_loop_cancelled(t)
    \/ pinger_stop_returns

PingerSpec == PingerInit /\ [][PingerNext]_vars

(***************************************************************************)
(* src/bot.py: the requests of the file-request bot.  solicitudes[k] is    *)
(* the request 'REQ_%04d' % k; guardar_solicitudes writes the dict to the  *)
(* requests file and leaves it as it is.  No handler awaits between its    *)
(* first and its last change of the dict.                                  *)
(***************************************************************************)
MaxRequests == 3     \* requests filed

ADMIN_ID == "owner"                  \* Config.ADMIN_ID
Requesters == {ADMIN_ID, "user"}     \* update.effective_user.id

FileBotInit ==
    /\ BotIdle
    /\ validation = NoValidation
    /\ formatting = NoFormatting
    /\ autopinger = NoPinger
    /\ http = NoReply
    /\ solicitudes_db = NoRequests

\* the request solicitud_id names
Known(solicitud_id) == solicitud_id \in 1..Len(solicitudes_db.solicitudes)

\* /request with a text of at most MAX_REQUEST_LENGTH characters, lines
\* 600-627
request_file(user_id) ==
    /\ solicitudes_db.contador_solicitudes < MaxRequests
    /\ solicitudes_db' =
           [solicitudes_db EXCEPT
                !.contador_solicitudes = @ + 1,
                !.solicitudes = Append(@, [usuario_id |-> user_id,
                                           estado |-> "PENDIENTE"]),
                !.estadisticas.total_solicitudes = @ + 1,
                !.estadisticas.solicitudes_pendientes = @ + 1]
    /\ UNCHANGED <<bot, validation, formatting, autopinger, http>>

\* /respond <id> <text> sent by the admin for a request that exists, lines
\* 817-830: the tests of lines 825 and 827 read the estado line 821 has
\* just written
respond_request(user_id, solicitud_id) ==
    /\ user_id = ADMIN_ID
    /\ Known(solicitud_id)
    /\ LET solicitud == [solicitudes_db.solicitudes[solicitud_id]
                             EXCEPT !.estado = "COMPLETADO"]
           stats == solicitudes_db.estadisticas
       IN  solicitudes_db' =
               [solicitudes_db EXCEPT
                    !.solicitudes[solicitud_id] = solicitud,
                    !.estadisticas =
                        IF solicitud.estado # "COMPLETADO"
                        THEN [stats EXCEPT
                                  !.solicitudes_completadas = @ + 1,
                                  !.solicitudes_pendientes =
                                      IF solicitud.estado = "PENDIENTE"
                                      THEN @ - 1 ELSE @]
                        ELSE stats]
    /\ UNCHANGED <<bot, validation, formatting, autopinger, http>>

\* the button aprobar_<id> pressed by the admin, lines 1781-1795
handle_approve_request(user_id, solicitud_id) ==
    /\ user_id = ADMIN_ID
    /\ Known(solicitud_id)
    /\ solicitudes_db' =
           [solicitudes_db EXCEPT !.solicitudes[solicitud_id].estado = "PROCESANDO"]
    /\ UNCHANGED <<bot, validation, formatting, autopinger, http>>

\* the button rechazar_<id> pressed by the admin, lines 1827-1846: the test
\* of line 1843 reads the estado line 1838 has just written
handle_reject_request(user_id, solicitud_id) ==
    /\ user_id = ADMIN_ID
    /\ Known(solicitud_id)
    /\ LET solicitud == [solicitudes_db.solicitudes[solicitud_id]
                             EXCEPT !.estado = "RECHAZADO"]
           stats == solicitudes_db.estadisticas
       IN  solicitudes_db' =
               [solicitudes_db EXCEPT
                    !.solicitudes[solicitud_id] = solicitud,
                    !.estadisticas =
                        IF solicitud.estado = "PENDIENTE"
                        THEN [stats EXCEPT !.solicitudes_pendientes = @ - 1]
                        ELSE stats]
    /\ UNCHANGED <<bot, validation, formatting, autopinger, http>>

FileBotNext ==
    \/ \E u \in Requesters : request_file(u)
    \/ \E u \in Requesters, k \in 1..MaxRequests : respond_request(u, k)
    \/ \E u \in Requesters, k \in 1..MaxRequests : handle_approve_request(u, k)
    \/ \E u \in Requesters, k \in 1..MaxRequests : handle_reject_request(u, k)

FileBotSpec == FileBotInit /\ [][FileBotNext]_vars

(***************************************************************************)
(* Properties of the transaction (handle_imei_input and the ledger).       *)
(***************************************************************************)
\* the step is taken by the handler of slot t
Stepped(t) == txn'[t] # txn[t]

\* the handler of slot t passed the balance gate and takes the step
AdmittedStep(t) == txn[t].pc \in {"processing", "report", "final"} /\ Stepped(t)

\* the step leaves the balance of account u as it was
SameBalance(u) ==
    /\ (u \in DOMAIN users') = (u \in DOMAIN users)
    /\ u \in DOMAIN users => users'[u].balance = users[u].balance

\* what update_user_query appends for the transaction of slot t
RecordOf(t, price, success) ==
    [service |-> txn[t].service.title, price |-> price,
     imei |-> LastN(txn[t].imei, 4), success |-> success]

\* C1: every step of an admitted transaction whose provider call did not
\* succeed (check_imei raised, whatever the error) leaves the balance of the
\* submitting account as it was.
C1_NoDebitOnFailure ==
    [][\A t \in Txns :
          (AdmittedStep(t) /\ txn'[t].result # "ok") => SameBalance(txn[t].user)]_vars

\* a transaction whose check_imei call raised has run to its end and the
\* account still holds the balance that admitted it
C1_Witness ==
    \E t \in Txns :
        /\ txn[t].pc = "done" /\ txn[t].at = "final"
        /\ txn[t].result \notin {"ok", "none"}
        /\ txn[t].user \in DOMAIN users
        /\ users[txn[t].user].balance >= txn[t].price
        /\ txn[t].price > 0

\* C2 as claimed: the transaction of a provider that answers HTTP 200 debits
\* exactly the service price and appends exactly one success record carrying
\* that price, in the step that ends its report.
C2_DebitOnSuccess ==
    [][\A t \in Txns :
          (/\ txn[t].pc = "report" /\ txn[t].prov[1] = "200"
           /\ txn'[t].pc \in {"final", "raised"})
          => LET u == txn[t].user IN
             /\ u \in DOMAIN users /\ u \in DOMAIN users'
             /\ users'[u].balance = users[u].balance - txn[t].price
             /\ users'[u].query_history =
                  Append(users[u].query_history, RecordOf(t, txn[t].price, TRUE))]_vars

\* C3: no invocation of handle_imei_input calls update_user_query more than
\* once, so no submission is debited twice.
C3_AtMostOneRecord == \A t \in Txns : Len(txn[t].calls) <= 1

\* an admitted submission has gone through the try statement
C3_Witness ==
    \E t \in Txns : txn[t].pc = "final" /\ txn[t].clause # "none"

\* C4 as claimed: a non-owner whose balance is below the price is sent to the
\* gate, and the gate ends the transaction with no provider request, the
\* account unchanged and the session Idle.
C4_GateAborts ==
    [][\A t \in Txns :
          /\ (/\ Ended(t) /\ Stepped(t) /\ txn'[t].error = "NONE"
              /\ txn'[t].price > 0
              /\ users'[txn'[t].user].balance < txn'[t].price
              /\ ~is_owner(txn'[t].user))
             => txn'[t].pc = "gate"
          /\ (txn[t].pc = "gate" /\ Stepped(t))
             => /\ txn'[t].gets = 0
                /\ users' = users
                /\ fsm'[txn[t].user].state = Idle]_vars

\* C5 as claimed: an owner whose balance is below the price is admitted, the
\* provider is called, and when it answers HTTP 200 a success record with the
\* full price is appended and the price is debited.
C5_OwnerBypassCharged ==
    [][\A t \in Txns :
          (/\ txn[t].pc = "report" /\ txn[t].prov[1] = "200"
           /\ is_owner(txn[t].user)
           /\ txn[t].user \in DOMAIN users
           /\ users[txn[t].user].balance < txn[t].price
           /\ txn'[t].pc = "final")
          => /\ txn[t].gets >= 1
             /\ users'[OWNER_ID].balance = users[OWNER_ID].balance - txn[t].price
             /\ users'[OWNER_ID].query_history =
                  Append(users[OWNER_ID].query_history,
                         RecordOf(t, txn[t].price, TRUE))]_vars

\* C6 as claimed: when the provider answers HTTP 429 to every attempt, the
\* transaction records one failed query of price zero: total_queries grows by
\* one, the record is appended and the balance stays.
C6_ProviderErrorRecorded ==
    [][\A t \in Txns :
          (/\ txn[t].pc = "report" /\ txn[t].prov = <<"429", "429", "429">>
           /\ txn'[t].pc \in {"final", "raised"})
          => LET u == txn[t].user IN
             /\ u \in DOMAIN users /\ u \in DOMAIN users'
             /\ users'[u].total_queries = users[u].total_queries + 1
             /\ users'[u].balance = users[u].balance
             /\ users'[u].query_history =
                  Append(users[u].query_history, RecordOf(t, 0, FALSE))]_vars

\* C7: a step of an admitted transaction other than the completed report of
\* a provider result or of a caught APIError leaves the accounts and
\* their file as they were.
C7_UnexpectedLeavesLedger ==
    [][\A t \in Txns :
          (/\ AdmittedStep(t)
           /\ ~(/\ txn[t].pc = "report" /\ txn[t].clause \in {"ok", "api"}
                /\ txn'[t].pc = "final"))
          => UNCHANGED <<users, users_file>>]_vars

\* an exception other than bot_manager.APIError was handled and its report
\* failed too; the account has no query on record
C7_Witness ==
    \E t \in Txns :
        /\ txn[t].pc = "raised" /\ txn[t].at = "report" /\ txn[t].clause = "exc"
        /\ txn[t].user \in DOMAIN users
        /\ users[txn[t].user].total_queries = 0
        /\ users[txn[t].user].query_history = <<>>

\* C8 as claimed: the handler of a submission that passed validation never
\* ends without the session having been reset to Idle (the closing message is
\* sent after the reset).
C8_AlwaysReset ==
    [][\A t \in Txns :
          (/\ Stepped(t) /\ txn'[t].pc \in {"done", "raised"}
           /\ txn'[t].error = "NONE" /\ txn[t].pc # "final")
          => fsm'[txn'[t].user].state = Idle]_vars

\* the step records a submission that failed validation
InvalidStep(t) == Stepped(t) /\ txn'[t].at = "invalid"

\* C9: a submission that fails validation leaves the session (state and
\* selected service), the accounts and the catalog as they were, issues no
\* provider request, and leaves the bot waiting for an identifier again.
C9_InvalidKeepsWaiting ==
    [][\A t \in Txns :
          InvalidStep(t)
          => /\ txn'[t].pc \in {"done", "raised"}
             /\ txn'[t].gets = 0
             /\ UNCHANGED <<fsm, users, users_file, catalog>>
             /\ fsm'[txn'[t].user].state = "waiting_for_imei"]_vars

\* an identifier with a wrong check digit was refused and the session still
\* waits for an identifier with its service selected
C9_Witness ==
    \E t \in Txns :
        /\ txn[t].at = "invalid" /\ txn[t].error = "CHECKSUM"
        /\ fsm[txn[t].user].state = "waiting_for_imei"
        /\ fsm[txn[t].user].selected_service # NoService

\* C10 as claimed: a validated submission whose selected service is not
\* registered in the catalog any more is sent to the no-service abort, with
\* the accounts unchanged.
C10_StaleServiceAborts ==
    [][\A t \in Txns :
          (/\ Ended(t) /\ Stepped(t) /\ txn'[t].error = "NONE"
           /\ fsm[txn'[t].user].selected_service.id \notin DOMAIN services_by_id)
          => /\ txn'[t].pc = "no_service"
             /\ UNCHANGED <<users, users_file>>]_vars

(***************************************************************************)
(* Properties of the dialog (handle_callback_query, the menu, /cancel).    *)
(***************************************************************************)
\* C11 as claimed: a session enters waiting_for_service only from
\* waiting_for_service_category and enters waiting_for_imei only from
\* waiting_for_service.
C11_StrictSequence ==
    [][\A u \in UserIds :
          /\ (fsm'[u].state = "waiting_for_service" /\ fsm[u].state # "waiting_for_service")
             => fsm[u].state = "waiting_for_service_category"
          /\ (fsm'[u].state = "waiting_for_imei" /\ fsm[u].state # "waiting_for_imei")
             => fsm[u].state = "waiting_for_service"]_vars

\* the step is one of the cancel controls used by u: the /cancel command,
\* the inline button "cancel", the menu button "Cancelar"
CancelControl(u) ==
    \/ cmd_cancel(u)
    \/ \E d \in BOOLEAN : callback_cancel(u, d)
    \/ \E d \in BOOLEAN : menu_cancelar(u, d)

\* C12 as claimed: in waiting_for_service_category, waiting_for_service and
\* waiting_for_imei, every cancel control leaves the session of its user
\* Idle with no selected category and no selected service.
C12_CancelResets ==
    [][\A u \in UserIds :
          (fsm[u].state \in FsmStates \ {Idle} /\ CancelControl(u))
          => fsm'[u] = Cleared]_vars

\* C13 as claimed: a cancel control used while the transaction of the same
\* user is past the gate leaves the transaction and the accounts as they
\* are, and the report of a transaction whose session was cancelled
\* meanwhile updates the ledger as the claim says any transaction does: the
\* price debited and a success record on HTTP 200, a failed record of price
\* zero when every attempt was answered 429.
C13_CancelDoesNotAbort ==
    [][\A t \in Txns :
          /\ (txn[t].pc \in {"processing", "report"} /\ CancelControl(txn[t].user))
             => (txn'[t] = txn[t] /\ UNCHANGED <<users, users_file>>)
          /\ (/\ txn[t].pc = "report" /\ txn'[t].pc = "final"
              /\ fsm[txn[t].user] = Cleared)
             => LET u == txn[t].user
                    success == txn[t].prov[1] = "200"
                    charged == IF success THEN txn[t].price ELSE 0
                IN  /\ u \in DOMAIN users
                    /\ users'[u].balance = users[u].balance - charged
                    /\ users'[u].query_history =
                         Append(users[u].query_history,
                                RecordOf(t, charged, success))]_vars

\* the handler of slot s runs past the gate for the same account as that of
\* slot t, at the same price
Overlaps(s, t) ==
    /\ s # t
    /\ txn[s].user = txn[t].user
    /\ txn[s].pc \in {"processing", "report", "final"}
    /\ txn[s].price = txn[t].price

\* C14 as claimed: of two transactions of a non-owner that were both
\* admitted against the same balance, each debits the price when its
\* provider call was answered HTTP 200, whatever the other one did.
C14_OverlappingBothDebit ==
    [][\A t \in Txns :
          (/\ txn[t].pc = "report" /\ txn'[t].pc = "final"
           /\ txn[t].prov[1] = "200"
           /\ ~is_owner(txn[t].user)
           /\ \E s \in Txns : Overlaps(s, t))
          => users'[txn[t].user].balance =
                users[txn[t].user].balance - txn[t].price]_vars

(***************************************************************************)
(* Properties of IMEIChecker.check_imei, over the calls of CheckSpec.      *)
(***************************************************************************)
\* the statuses, timeouts and connection errors after which the loop goes on
\* to the next attempt by design
Retryable == {"429", "timeout", "connerr"}

\* the k-th GET (k from 1) of the call was sent
Sent(k) == call.done /\ call.result.gets >= k

\* the back-off sleeps the call took after its k-th GET (k from 1)
SleepsAfter(k) == SelectSeq(call.result.sleeps, LAMBDA z : z.after = k - 1)

\* C15 as claimed: a call against a provider that answers 429 to every
\* request sends exactly max_retries GETs and then raises APIError.
C15_All429Exhausts ==
    (call.done /\ \A k \in 1..MAX_RETRIES : call.resp[k] = "429")
    => (call.result.gets = MAX_RETRIES /\ call.result.kind = "checker.APIError")

\* C16 as claimed: every call sends at least one and at most max_retries
\* GETs; none ends before its first request.
C16_AtLeastOneRequest ==
    call.done => (call.result.gets >= 1 /\ call.result.gets <= MAX_RETRIES)

C20_OkReturnsAtOnce ==
    \A k \in 1..MAX_RETRIES :
        (Sent(k) /\ call.resp[k] \in {"200", "200bad"})
        => /\ call.result.gets = k
           /\ SleepsAfter(k) = <<>>
           /\ call.result.kind = IF call.resp[k] = "200" THEN "ok"
                                 ELSE "JSONDecodeError"

\* a call was answered 200 on its second attempt and returned then
C20_Witness ==
    /\ call.done
    /\ call.resp[1] = "429" /\ call.resp[2] = "200" /\ call.resp[3] = "429"
    /\ call.result.kind = "ok"
    /\ call.result.gets = 2

(***************************************************************************)
(* Properties of the ledger (UserDatabase) and of the gate.                *)
(***************************************************************************)
\* the record update_user_query is to append for a logged call
ExpectedRecord(c) ==
    [service |-> c.title, price |-> c.price, imei |-> LastN(c.imei, 4),
     success |-> c.success]

\* C21: after any number n of update_user_query calls on an account that
\* began with an empty history, query_history holds min(n, 50) records, and
\* they are the most recent min(n, 50) appended ones in their original order.
C21_HistoryCapped ==
    \A u \in DOMAIN users :
        LET log == ledger_log.calls[u]
            h == users[u].query_history
            n == Len(log)
        IN  /\ Len(h) <= HISTORY_CAP
            /\ Len(h) = IF n <= HISTORY_CAP THEN n ELSE HISTORY_CAP
            /\ \A i \in 1..Len(h) : h[i] = ExpectedRecord(log[n - Len(h) + i])

\* an account was given more than 51 queries and holds 50 records
C21_Witness ==
    \E u \in DOMAIN users :
        /\ Len(ledger_log.calls[u]) > HISTORY_CAP + 1
        /\ Len(users[u].query_history) = HISTORY_CAP

\* C22: a step that changes the balance of an existing account lowers it
\* and appends a success record to that account's history: nothing but the
\* debit of update_user_query changes a balance.
C22_OnlyDebitMutatesBalance ==
    [][\A u \in DOMAIN users \cap DOMAIN users' :
          users'[u].balance # users[u].balance
          => /\ users'[u].balance < users[u].balance
             /\ users'[u].query_history # users[u].query_history
             /\ Len(users'[u].query_history) > 0
             /\ users'[u].query_history[Len(users'[u].query_history)].success]_vars

\* the calls of update_user_query that found the account of u
KnownCalls(u) == SelectSeq(ledger_log.calls[u], LAMBDA c : c.known)

\* C23: total_queries of an account equals the number of update_user_query
\* calls made on it, successful or not: every call adds exactly one.
C23_CountsEveryCall ==
    \A u \in DOMAIN users : users[u].total_queries = Len(KnownCalls(u))

\* an account took a successful and a failed query and counts two
C23_Witness ==
    \E u \in DOMAIN users :
        /\ users[u].total_queries = 2
        /\ \E i, j \in 1..Len(KnownCalls(u)) :
              KnownCalls(u)[i].success /\ ~KnownCalls(u)[j].success

\* C24: every record of every history holds exactly the last 4 characters
\* of the identifier the query was made with, and a record whose success
\* flag is false has price zero.
C24_RecordsTruncatedAndFree ==
    \A u \in DOMAIN users :
        LET h == users[u].query_history
            made == KnownCalls(u)
        IN  /\ Len(h) = Len(made)
            /\ \A i \in 1..Len(h) :
                  /\ Len(h[i].imei) = 4
                  /\ \A j \in 1..4 :
                        h[i].imei[j] = made[i].imei[Len(made[i].imei) - 4 + j]
                  /\ ~h[i].success => h[i].price = 0

\* a failed query made with an identifier of more than 4 digits is on record
C24_Witness ==
    \E u \in DOMAIN users :
        \E i \in 1..Len(users[u].query_history) :
            /\ ~users[u].query_history[i].success
            /\ Len(KnownCalls(u)[i].imei) > 4

\* C25: get_or_create_user on an unknown id adds an account with balance 0,
\* total_queries 0 and an empty history; on a known id it changes nothing
\* of the account but username, first_name, last_name and last_activity;
\* it never touches another account.
C25_GetOrCreateFrame ==
    [][\A u \in UserIds, p \in Profiles :
          db_get_or_create_user(u, p)
          => /\ DOMAIN users' = DOMAIN users \cup {u}
             /\ \A v \in DOMAIN users \ {u} : users'[v] = users[v]
             /\ IF u \notin DOMAIN users
                THEN /\ users'[u].balance = 0
                     /\ users'[u].total_queries = 0
                     /\ users'[u].query_history = <<>>
                ELSE users'[u] =
                        [users[u] EXCEPT !.username = p.username,
                                         !.first_name = p.first_name,
                                         !.last_name = p.last_name,
                                         !.last_activity = users'[u].last_activity]]_vars

\* an account with a query on record was refreshed by get_or_create_user
C25_Witness ==
    \E u \in DOMAIN users :
        /\ users[u].total_queries > 0
        /\ users[u].last_activity > users[u].join_date
        /\ \E p \in Profiles : users[u].first_name = p.first_name

\* C26: the step in which the balance gate refuses a submission, and the
\* step that then aborts the transaction, leave the accounts and the users
\* file exactly as they were.
C26_GateAbortNoSideEffects ==
    [][\A t \in Txns :
          (Stepped(t) /\ (txn'[t].pc = "gate" \/ txn[t].pc = "gate"))
          => UNCHANGED <<users, users_file>>]_vars

(***************************************************************************)
(* Properties of the catalog.                                              *)
(***************************************************************************)
\* the ids of the services of a list
IdsOf(services) == {services[k].id : k \in 1..Len(services)}

\* how often a service with the id stands in the list filed under category c
Filed(c, service_id) ==
    IF c \in DOMAIN services_by_category
    THEN Cardinality({k \in 1..Len(services_by_category[c]) :
                         services_by_category[c][k].id = service_id})
    ELSE 0

\* C27: a service id is in services_by_id if and only if a service with the
\* id is filed in services_by_category; it is then filed exactly once under
\* the category of the service and under no other category.
C27_IndexesAgree ==
    \A i \in CatalogIds :
        /\ i \in DOMAIN services_by_id
              <=> \E c \in DOMAIN services_by_category : Filed(c, i) > 0
        /\ i \in DOMAIN services_by_id
              => /\ Filed(services_by_id[i].category, i) = 1
                 /\ \A c \in DOMAIN services_by_category :
                       c # services_by_id[i].category => Filed(c, i) = 0

\* C28: no two entries of SERVICES_DATA carry the same id.
C28_UniqueIds ==
    \A j, k \in 1..Len(SERVICES_DATA) :
        j # k => SERVICES_DATA[j].id # SERVICES_DATA[k].id

\* C29: after a restart that found the services file, every service of the
\* file is what services_by_id returns for its id (so a svc_ callback
\* selects it), and an id that is not in the file is neither in
\* services_by_id nor filed under any category.
C29_CatalogRoundTrips ==
    [][(restart /\ services_file.exists)
          => LET persisted == json_load(services_file.data)
             IN  /\ \A k \in 1..Len(persisted) :
                       DictGet(services_by_id', persisted[k].id) = persisted[k]
                 /\ \A i \in CatalogIds \ IdsOf(persisted) :
                       /\ i \notin DOMAIN services_by_id'
                       /\ \A c \in DOMAIN services_by_category' :
                             \A k \in 1..Len(services_by_category'[c]) :
                                services_by_category'[c][k].id # i]_vars

\* C30: /addservice with an id that a service of SERVICES_DATA carries, and
\* /removeservice with an id that none carries, leave SERVICES_DATA,
\* services_by_id, services_by_category and the services file unchanged.
C30_RejectedLeaveCatalog ==
    [][\A i \in CatalogIds :
          /\ (i \in IdsOf(SERVICES_DATA)
              /\ \E c \in AddCategories :
                    cmd_add_service(OWNER_ID, i, "Pro", "0.50", c))
                => UNCHANGED catalog
          /\ (i \notin IdsOf(SERVICES_DATA) /\ cmd_remove_service(OWNER_ID, i))
                => UNCHANGED catalog]_vars

(***************************************************************************)
(* Properties of prices, of the session and of the last attempt.           *)
(***************************************************************************)
\* C31: the price text of every service of SERVICES_DATA is a decimal
\* greater than zero.
C31_PositivePrices ==
    \A k \in 1..Len(SERVICES_DATA) :
        /\ ParseFloat(SERVICES_DATA[k].price).ok
        /\ ParseFloat(SERVICES_DATA[k].price).cents > 0

\* C36: a session in waiting_for_imei holds a selected service.
C36_WaitingHasService ==
    \A u \in UserIds :
        fsm[u].state = "waiting_for_imei" => fsm[u].selected_service # NoService

DigitsOf(text) == SelectSeq(text, LAMBDA c : c \in Digits)

\* a digit doubled, and the two digits of the double added
Folded(n) == IF 2 * n > 9 THEN 2 * n - 9 ELSE 2 * n

RECURSIVE LuhnSumFrom(_, _)
\* the Luhn sum of the j rightmost digits: every second digit doubled and
\* folded, counting from the rightmost one
LuhnSumFrom(digits, j) ==
    IF j = 0 THEN 0
    ELSE LET n == DigitVal(digits[Len(digits) + 1 - j])
         IN  (IF j % 2 = 0 THEN Folded(n) ELSE n) + LuhnSumFrom(digits, j - 1)

LuhnSum(digits) == LuhnSumFrom(digits, Len(digits))

\* the three verdicts the specification calls the format error
FormatErrors == {"EMPTY", "NOT_NUMERIC", "LENGTH"}

\* C32: a text with exactly 15 digits is accepted if and only if the Luhn
\* sum of its digits is divisible by 10, and is refused with the checksum
\* error otherwise.
C32_LuhnDecides ==
    (validation.done /\ Len(DigitsOf(validation.imei)) = LUHN_LEN)
    => /\ validation.result.is_valid
           <=> (LuhnSum(DigitsOf(validation.imei)) % 10 = 0)
       /\ ~validation.result.is_valid => validation.result.error = "CHECKSUM"

\* a text of 15 digits typed with separators was accepted
C32_Witness ==
    /\ validation.done
    /\ Len(DigitsOf(validation.imei)) = LUHN_LEN
    /\ Len(validation.imei) > LUHN_LEN
    /\ validation.result.is_valid
    /\ LuhnSum(DigitsOf(validation.imei)) > 0

\* C33: a text whose number of digits is outside 8..17, a text with no
\* digit included, is refused with the format error and no cleaned
\* identifier is returned.
C33_OutsideRangeRefused ==
    (validation.done /\ Len(DigitsOf(validation.imei)) \notin MIN_LEN..MAX_LEN)
    => /\ ~validation.result.is_valid
       /\ validation.result.error \in FormatErrors
       /\ validation.result.clean = <<>>

\* a text of 18 digits was refused
C33_Witness ==
    /\ validation.done
    /\ Len(DigitsOf(validation.imei)) = MAX_LEN + 1
    /\ validation.result.error = "LENGTH"

\* C34: a text with 8..14 or 16..17 digits is accepted whatever its digits
\* are, the checksum playing no part, and the identifier returned is
\* exactly its digits.
C34_OtherLengthsAccepted ==
    (/\ validation.done
     /\ Len(DigitsOf(validation.imei)) \in (MIN_LEN..MAX_LEN) \ {LUHN_LEN})
    => /\ validation.result.is_valid
       /\ validation.result.clean = DigitsOf(validation.imei)

\* a lettered text of 16 digits whose Luhn sum is not divisible by 10 was
\* accepted
C34_Witness ==
    /\ validation.done
    /\ Len(DigitsOf(validation.imei)) = LUHN_LEN + 1
    /\ Len(validation.imei) > LUHN_LEN + 1
    /\ LuhnSum(DigitsOf(validation.imei)) % 10 # 0
    /\ validation.result.is_valid
    /\ validation.result.clean = DigitsOf(validation.imei)

(***************************************************************************)
(* Properties of the formatter.                                            *)
(***************************************************************************)
\* the cleaned body of the payload formatted (none for a payload that is not
\* a dict)
CleanedBody ==
    IF formatting.payload.type = "dict"
    THEN clean_html_content(formatting.payload.result)
    ELSE <<>>

\* C35: the message holds the cleaned body up to its 1500th character and
\* nothing of it beyond, and carries the truncation marker if and only if
\* the cleaned body is longer than 1500 characters.
C35_TruncatedAtCap ==
    formatting.done
    => LET body == CleanedBody
           details == formatting.message.details
       IN  /\ Len(details) <= 1500
           /\ Len(details) <= Len(body)
           /\ details = SubSeq(body, 1, Len(details))
           /\ Len(body) <= 1500 => details = body
           /\ formatting.message.truncated <=> (Len(body) > 1500)

\* a body of more than 1500 characters whose cleaned form is shorter was
\* formatted without the marker
C35_Witness ==
    /\ formatting.done
    /\ Len(formatting.payload.result.text) > 1500
    /\ Len(CleanedBody) < Len(formatting.payload.result.text)
    /\ Len(CleanedBody) <= 1500
    /\ formatting.message.has_details
    /\ ~formatting.message.truncated

(***************************************************************************)
(* Properties of the admin endpoints.                                      *)
(***************************************************************************)
\* C38: after add_credits or set_credits has answered 401, 404 or 500, the
\* balance of the account the request named is what it was before the
\* request.
C38_ErrorLeavesBalance ==
    (http.status \in {401, 404, 500} /\ http.user_id \in DOMAIN users)
    => users[http.user_id].balance = http.before

(***************************************************************************)
(* Properties of the autopinger.                                           *)
(***************************************************************************)
\* C39: when a call of stop() has returned, no ping loop task is running,
\* whatever calls of start() and stop() were made before it.
C39_StopLeavesNoLoop ==
    autopinger.stop.pc = "returned"
    => \A t \in 1..Len(autopinger.tasks) : autopinger.tasks[t].state # "running"

(***************************************************************************)
(* Properties of the request counters.                                     *)
(***************************************************************************)
\* the number of requests whose estado is e
CountEstado(e) ==
    Cardinality({k \in 1..Len(solicitudes_db.solicitudes) :
                     solicitudes_db.solicitudes[k].estado = e})

\* C40: solicitudes_pendientes is the number of requests in PENDIENTE and
\* solicitudes_completadas the number of requests in COMPLETADO.
C40_CountersMatchEstados ==
    /\ solicitudes_db.estadisticas.solicitudes_pendientes = CountEstado("PENDIENTE")
    /\ solicitudes_db.estadisticas.solicitudes_completadas = CountEstado("COMPLETADO")

====
